---- MODULE Spec2Model ----
(***************************************************************************)
(* Settlement-analytics dashboard (kjha0428/MS_AI_MVP): the natural-       *)
(* language-to-SQL generator, its safety validators and the database       *)
(* access layer.  Python strings are TLA+ strings; Len, SubSeq and \o act  *)
(* on them character by character, so substring tests, trimming and case   *)
(* conversion are computed as the Python code computes them.               *)
(*                                                                         *)
(* The lexer accepts a character of the Basic Multilingual Plane beyond     *)
(* ASCII inside a string only when the low byte of its code point is 0x80  *)
(* or more, and it accepts neither a backquote nor a character outside     *)
(* that plane.  A Hangul syllable with a smaller low byte is written as    *)
(* the syllable 0x80 code points later, the backquote as an acute accent,  *)
(* any other such character as a dingbat digit.  No text of the sources    *)
(* that is used here contains one of the substitutes, so the renaming is   *)
(* one-to-one, keeps every length in code points, and no str operation     *)
(* modelled here (in, lower, upper, strip, the digit patterns) tells the   *)
(* two apart.  Source code point and the character written for it:         *)
(*   U+0060 ´  U+AC00 검  U+AC10 겐  U+AC1C 겜  U+AC1D 겝  U+AC70 곰            *)
(*   U+AC74 곴  U+AD50 귐  U+AD6C 귬  U+AE08 꺈  U+AE09 꺉  U+AE30 꺰            *)
(*   U+B144 뇄  U+B155 뇕  U+B300 뎀  U+B354 돔  U+B370 돰  U+B418 뒘            *)
(*   U+B808 뢈  U+B80C 뢌  U+B824 뢤  U+B85C 룜  U+B97C 맼  U+BA54 뫔            *)
(*   U+BB38 뮸  U+BC0F 벏  U+BC18 벘  U+BC29 벩  U+BE44 뻄  U+C11C 솜            *)
(*   U+C124 솤  U+C131 솱  U+C138 솸  U+C218 슘  U+C21C 슜  U+C544 엄            *)
(*   U+C548 었  U+C54A 엊  U+C54C 엌  U+C561 엡  U+C608 욈  U+C624 욤            *)
(*   U+C62C 욬  U+C704 임  U+C720 잠  U+C73C 잼  U+C744 쟄  U+C74C 쟌            *)
(*   U+C774 쟴  U+C778 쟸  U+C77C 쟼  U+C801 좁  U+C804 좄  U+C808 좈            *)
(*   U+C815 좕  U+C81C 좜  U+C838 좸  U+C870 죰  U+C918 즘  U+CD08 춈            *)
(*   U+CD1D 춝  U+CD5C 췜  U+CE58 컘  U+CE59 컙  U+CF64 쿤  U+D070 탰            *)
(*   U+D130 톰  U+D134 톴  U+D14C 퇌  U+D154 퇔  U+D328 펨  U+D50C 햌            *)
(*   U+D558 험  U+D55C 헜  U+D569 헩  U+D574 헴  U+D604 횄  U+D638 횸            *)
(*   U+D654 훔  U+D669 훩  U+FE0F ➀  U+1F4C8 ➁  U+1F4CA ➂  U+1F4E4 ➃         *)
(*   U+1F4E5 ➄  U+1F947 ➅  U+1F948 ➆  U+1F949 ➇                            *)
(***************************************************************************)
EXTENDS Integers, Sequences, FiniteSets, TLC

VARIABLES
    revision,        \* "root": src/*.py, "project": src/project/*.py
    openai_api_key,  \* AzureConfig.openai_api_key is set
    openai_endpoint, \* AzureConfig.openai_endpoint is set
    int_max_str_digits, \* sys.get_int_max_str_digits() of the interpreter
    use_sample_data, \* DatabaseManager.use_sample_data / not use_azure
    connection,      \* sample_connection / sqlalchemy_engine is available
    clock,           \* time.time(), in milliseconds
    exec,            \* the last execute_query call and what it returned
    sql_generator,   \* the SQLGenerator / OpenAISQLGenerator object, or None
    model_calls,     \* chat.completions.create calls made so far
    gen,             \* the last generator call and what it returned
    conversation_history, \* st.session_state.conversation_history
    azure_store,     \* the tables of the Azure SQL Database and their rows
    sample,          \* the last run of the sample generator
    environ,         \* os.environ and the servers behind it at start-up
    startup          \* the last start-up of a database manager

configVars == <<revision, openai_api_key, openai_endpoint, int_max_str_digits>>

dbVars == <<use_sample_data, connection, clock, exec>>

genVars == <<sql_generator, model_calls, gen>>

chatVars == <<conversation_history>>

sampleVars == <<azure_store, sample>>

managerVars == <<environ, startup>>

vars == <<configVars, dbVars, genVars, chatVars, sampleVars, managerVars>>

(***************************************************************************)
(* Bounds of the model.                                                    *)
(***************************************************************************)
MaxClock == 2
MaxTick == 1

(***************************************************************************)
(* Python str primitives.                                                  *)
(***************************************************************************)
None == "<None>"

\* the default of sys.get_int_max_str_digits() since Python 3.11
INT_MAX_STR_DIGITS == 4300

LowerLetters == "abcdefghijklmnopqrstuvwxyz"

UpperLetters == "ABCDEFGHIJKLMNOPQRSTUVWXYZ"

Whitespace == {" ", "\n", "\t", "\r"}

Digits == {"0", "1", "2", "3", "4", "5", "6", "7", "8", "9"}

\* the position of character c in the string letters, 0 when absent
IndexIn(c, letters) ==
    LET hits == {i \in 1..Len(letters) : SubSeq(letters, i, i) = c}
    IN  IF hits = {} THEN 0 ELSE CHOOSE i \in hits : TRUE

\* str.upper() and str.lower() on the characters that have a case
UpperOf ==
    [c \in {SubSeq(LowerLetters, i, i) : i \in 1..Len(LowerLetters)} |->
        LET i == IndexIn(c, LowerLetters) IN SubSeq(UpperLetters, i, i)]

LowerOf ==
    [c \in {SubSeq(UpperLetters, i, i) : i \in 1..Len(UpperLetters)} |->
        LET i == IndexIn(c, UpperLetters) IN SubSeq(LowerLetters, i, i)]

UpperChar(c) == IF c \in DOMAIN UpperOf THEN UpperOf[c] ELSE c

LowerChar(c) == IF c \in DOMAIN LowerOf THEN LowerOf[c] ELSE c

RECURSIVE Upper(_)
\* str.upper()
Upper(s) ==
    IF Len(s) = 0 THEN ""
    ELSE IF Len(s) = 1 THEN UpperChar(s)
    ELSE LET h == Len(s) \div 2
         IN  Upper(SubSeq(s, 1, h)) \o Upper(SubSeq(s, h + 1, Len(s)))

RECURSIVE Lower(_)
\* str.lower()
Lower(s) ==
    IF Len(s) = 0 THEN ""
    ELSE IF Len(s) = 1 THEN LowerChar(s)
    ELSE LET h == Len(s) \div 2
         IN  Lower(SubSeq(s, 1, h)) \o Lower(SubSeq(s, h + 1, Len(s)))

RECURSIVE FirstSolid(_, _, _)
\* the first position of lo..hi that holds no whitespace, 0 if none
FirstSolid(s, lo, hi) ==
    IF lo > hi THEN 0
    ELSE IF lo = hi
    THEN IF SubSeq(s, lo, lo) \notin Whitespace THEN lo ELSE 0
    ELSE LET mid == (lo + hi) \div 2
             left == FirstSolid(s, lo, mid)
         IN  IF left # 0 THEN left ELSE FirstSolid(s, mid + 1, hi)

RECURSIVE LastSolid(_, _, _)
\* the last position of lo..hi that holds no whitespace, 0 if none
LastSolid(s, lo, hi) ==
    IF lo > hi THEN 0
    ELSE IF lo = hi
    THEN IF SubSeq(s, lo, lo) \notin Whitespace THEN lo ELSE 0
    ELSE LET mid == (lo + hi) \div 2
             right == LastSolid(s, mid + 1, hi)
         IN  IF right # 0 THEN right ELSE LastSolid(s, lo, mid)

\* str.strip()
Strip(s) ==
    LET lo == FirstSolid(s, 1, Len(s))
    IN  IF lo = 0 THEN "" ELSE SubSeq(s, lo, LastSolid(s, 1, Len(s)))

\* str.startswith(prefix)
StartsWith(s, prefix) ==
    /\ Len(prefix) <= Len(s)
    /\ SubSeq(s, 1, Len(prefix)) = prefix

\* the Python test `k in s` on two strings
Contains(s, k) ==
    \E i \in 1..(Len(s) - Len(k) + 1) : SubSeq(s, i, i + Len(k) - 1) = k

RECURSIVE Repeat(_, _)
\* the Python expression c * n
Repeat(c, n) ==
    IF n <= 0 THEN ""
    ELSE IF n % 2 = 0 THEN LET h == Repeat(c, n \div 2) IN h \o h
    ELSE c \o Repeat(c, n - 1)

(***************************************************************************)
(* Database access layer: DatabaseManager._validate_query_safety.  The     *)
(* two revisions of database_manager.py carry the same text.               *)
(***************************************************************************)
MAX_QUERY_LENGTH == 5000

allowed_start_keywords == <<"SELECT", "WITH">>

dangerous_keywords ==
    <<"DROP", "DELETE", "INSERT", "UPDATE", "ALTER", "CREATE", "TRUNCATE",
      "EXEC", "EXECUTE", "MERGE", "BULK">>

allowed_tables ==
    <<"PY_NP_TRMN_RMNY_TXN", "PY_NP_SBSC_RMNY_TXN", "PY_DEPAZ_BAS">>

\* any(f(x) for x in xs) / the early return inside `for x in xs`
AnyOf(xs, P(_)) == \E i \in 1..Len(xs) : P(xs[i])

\* _validate_query_safety without its length test
_validate_query_safety_unbounded(sql_query) ==
    LET sql_upper == Strip(Upper(sql_query))
        starts(keyword) == StartsWith(sql_upper, keyword)
        found(keyword) == Contains(sql_upper, keyword)
        named(table) == Contains(sql_query, table)
    IN  IF ~AnyOf(allowed_start_keywords, starts) THEN FALSE
        ELSE IF AnyOf(dangerous_keywords, found) THEN FALSE
        ELSE IF ~AnyOf(allowed_tables, named) THEN FALSE
        ELSE TRUE

_validate_query_safety(sql_query) ==
    LET sql_upper == Strip(Upper(sql_query))
        starts(keyword) == StartsWith(sql_upper, keyword)
        found(keyword) == Contains(sql_upper, keyword)
        named(table) == Contains(sql_query, table)
    IN  IF ~AnyOf(allowed_start_keywords, starts) THEN FALSE
        ELSE IF AnyOf(dangerous_keywords, found) THEN FALSE
        ELSE IF ~AnyOf(allowed_tables, named) THEN FALSE
        ELSE IF Len(sql_query) > MAX_QUERY_LENGTH THEN FALSE
        ELSE TRUE

(***************************************************************************)
(* DatabaseManager.execute_query.                                          *)
(***************************************************************************)
\* self.max_result_rows of the two revisions
max_result_rows == IF revision = "root" THEN 10000 ELSE 2000

PREVIEW_LENGTH == 100

\* metadata["query_preview"]
query_preview(sql_query) ==
    IF Len(sql_query) > PREVIEW_LENGTH
    THEN SubSeq(sql_query, 1, PREVIEW_LENGTH) \o "..."
    ELSE sql_query

\* AzureConfig.get_database_connection_string is not None
has_database == environ.sql_settings

\* AzureConfig.is_production_ready
is_production_ready == (openai_api_key /\ openai_endpoint) \/ has_database

\* self.use_azure of src/project/database_manager.py, as __init__ sets it
\* for a manager whose construction did not raise
self_use_azure ==
    ~use_sample_data /\ is_production_ready /\ environ.sql_connection_string

\* metadata["database_type"]: src/database_manager.py decides on
\* self.use_sample_data, src/project/database_manager.py on self.use_azure
database_type ==
    IF revision = "root"
    THEN IF ~use_sample_data THEN "Azure SQL" ELSE "SQLite"
    ELSE IF self_use_azure THEN "Azure SQL" ELSE "SQLite"

\* the metadata dict as execute_query builds it before the try block
InitialMetadata(sql_query) ==
    [execution_time |-> 0, row_count |-> 0, column_count |-> 0,
     success |-> FALSE, error_message |-> None, error_type |-> None,
     truncated |-> FALSE, database_type |-> database_type,
     query_preview |-> query_preview(sql_query)]

\* pd.DataFrame(): no rows, no columns
EmptyFrame == [rows |-> 0, columns |-> 0]

\* a head that keeps every row
head_uncut(df, n) == df

\* df.head(self.max_result_rows)
head(df, n) == [df EXCEPT !.rows = IF df.rows > n THEN n ELSE df.rows]

\* what pd.read_sql_query can do with a query once it reaches the engine:
\* return a frame, or raise (engine error, driver timeout)
EngineFrames ==
    {[rows |-> r, columns |-> 2] : r \in {0, 1, max_result_rows + 1}}

EngineErrors == {"OperationalError", "TimeoutError"}

\* an except branch that lets the exception escape, as the connection
\* set-up code does with `raise e`
FailedReturn_reraise(sql_query, elapsed, e) ==
    [phase |-> "raised", sql_query |-> sql_query, safe |-> e.safe,
     engine_query |-> e.engine_query, engine_outcome |-> e.engine_outcome]

\* the except branch of execute_query; e is the exception caught
FailedReturn(sql_query, elapsed, e) ==
    [phase |-> "returned",
     sql_query |-> sql_query,
     safe |-> e.safe,
     engine_query |-> e.engine_query,
     engine_outcome |-> e.engine_outcome,
     engine_rows |-> 0,
     df |-> EmptyFrame,
     metadata |-> [InitialMetadata(sql_query) EXCEPT
                      !.execution_time = elapsed,
                      !.success = FALSE,
                      !.error_message = e.message,
                      !.error_type = e.type]]

\* a success path that counts the rows before cutting the frame
SuccessReturn_count_first(sql_query, elapsed, frame) ==
    LET df == IF frame.rows > max_result_rows
              THEN head(frame, max_result_rows) ELSE frame
    IN  [phase |-> "returned",
         sql_query |-> sql_query,
         safe |-> TRUE,
         engine_query |-> sql_query,
         engine_outcome |-> "frame",
         engine_rows |-> frame.rows,
         df |-> df,
         metadata |-> [InitialMetadata(sql_query) EXCEPT
                          !.execution_time = elapsed,
                          !.row_count = frame.rows,
                          !.column_count = df.columns,
                          !.success = TRUE,
                          !.truncated = frame.rows > max_result_rows]]

\* the success path of execute_query after the engine returned frame
SuccessReturn(sql_query, elapsed, frame) ==
    LET df == IF frame.rows > max_result_rows
              THEN head(frame, max_result_rows) ELSE frame
    IN  [phase |-> "returned",
         sql_query |-> sql_query,
         safe |-> TRUE,
         engine_query |-> sql_query,
         engine_outcome |-> "frame",
         engine_rows |-> frame.rows,
         df |-> df,
         metadata |-> [InitialMetadata(sql_query) EXCEPT
                          !.execution_time = elapsed,
                          !.row_count = df.rows,
                          !.column_count = df.columns,
                          !.success = TRUE,
                          !.truncated = frame.rows > max_result_rows]]

\* the queries the callers of execute_query are modelled to pass
QueryLeads == {"", " \n"}

QueryStarts == {"SELECT", "with", "DELETE", "EXPLAIN SELECT"}

QueryBodies ==
    {" * FROM ", " 'DROP TABLE' AS note FROM ", " Merge_flag FROM ",
     " bulk_id FROM ", " executed_at FROM "}

QueryTables == {"PY_NP_SBSC_RMNY_TXN", "PY_DEPAZ_BAS", "py_depaz_bas", "USERS"}

ShortQueries ==
    {lead \o start \o body \o table :
        lead \in QueryLeads, start \in QueryStarts,
        body \in QueryBodies, table \in QueryTables}

\* q followed by blanks up to a total length of n
PadTo(q, n) == q \o Repeat(" ", n - Len(q))

LongQueryBases ==
    {"SELECT * FROM PY_DEPAZ_BAS WHERE 1 = 1", "SELECT 1",
     "SELECT bulk_id FROM PY_DEPAZ_BAS"}

LongQueries ==
    {PadTo(q, n) : q \in LongQueryBases,
                   n \in {MAX_QUERY_LENGTH, MAX_QUERY_LENGTH + 1}}

QueryInputs == ShortQueries \cup LongQueries

\* a caller (dashboard, chat box, get_sample_data) invokes execute_query
CallExecuteQuery ==
    /\ exec.phase # "called"
    /\ \E sql_query \in QueryInputs :
          exec' = [phase |-> "called", sql_query |-> sql_query]
    /\ UNCHANGED <<configVars, sampleVars, managerVars, genVars, chatVars, use_sample_data, connection, clock>>

\* execute_query without the call of _validate_query_safety
execute_query_unchecked(sql_query) ==
    \E tick \in 0..MaxTick :
        /\ clock + tick <= MaxClock
        /\ clock' = clock + tick
        /\ LET start_time == clock
               elapsed == clock' - start_time
               safe == _validate_query_safety(sql_query)
               absent == [safe |-> safe, engine_query |-> None,
                          engine_outcome |-> None,
                          message |-> "no connection", type |-> "Exception"]
           IN  IF ~connection
               THEN exec' = FailedReturn(sql_query, elapsed, absent)
               ELSE \/ \E frame \in EngineFrames :
                          exec' = [SuccessReturn(sql_query, elapsed, frame)
                                      EXCEPT !.safe = safe]
                    \/ \E error \in EngineErrors :
                          exec' = FailedReturn(sql_query, elapsed,
                                      [safe |-> safe,
                                       engine_query |-> sql_query,
                                       engine_outcome |-> error,
                                       message |-> error,
                                       type |-> error])
        /\ UNCHANGED <<configVars, sampleVars, managerVars, genVars, chatVars, use_sample_data, connection>>

execute_query(sql_query) ==
    \E tick \in 0..MaxTick :
        /\ clock + tick <= MaxClock
        /\ clock' = clock + tick
        /\ LET start_time == clock
               elapsed == clock' - start_time
               unsafe == [safe |-> FALSE, engine_query |-> None,
                          engine_outcome |-> None,
                          message |-> "unsafe query", type |-> "ValueError"]
               absent == [safe |-> TRUE, engine_query |-> None,
                          engine_outcome |-> None,
                          message |-> "no connection", type |-> "Exception"]
           IN  IF ~_validate_query_safety(sql_query)
               THEN exec' = FailedReturn(sql_query, elapsed, unsafe)
               ELSE IF ~connection
               THEN exec' = FailedReturn(sql_query, elapsed, absent)
               ELSE \/ \E frame \in EngineFrames :
                          exec' = SuccessReturn(sql_query, elapsed, frame)
                    \/ \E error \in EngineErrors :
                          exec' = FailedReturn(sql_query, elapsed,
                                      [safe |-> TRUE,
                                       engine_query |-> sql_query,
                                       engine_outcome |-> error,
                                       message |-> error,
                                       type |-> error])
        /\ UNCHANGED <<configVars, sampleVars, managerVars, genVars, chatVars, use_sample_data, connection>>

ExecuteQuery ==
    /\ exec.phase = "called"
    /\ execute_query(exec.sql_query)

NoCall == [phase |-> "idle"]

\* the three tables of the schema: port-out, port-in, deposit
PORT_OUT == "PY_NP_TRMN_RMNY_TXN"

PORT_IN == "PY_NP_SBSC_RMNY_TXN"

DEPOSIT == "PY_DEPAZ_BAS"

Tables == {PORT_OUT, PORT_IN, DEPOSIT}

\* an Azure SQL Database without the tables
EmptyStore ==
    [exists |-> [t \in Tables |-> FALSE], rows |-> [t \in Tables |-> 0],
     generated_keys |-> FALSE]

\* the sample generator has not run
NoSampleRun == azure_store = EmptyStore /\ sample = NoCall

\* no database settings, a reachable local SQLite
NoEnviron ==
    [force_sample |-> FALSE, sql_settings |-> FALSE,
     sql_connection_string |-> FALSE, cloud_first |-> "unreachable",
     cloud_then |-> "unreachable", local |-> "ok"]

NoStartup == environ = NoEnviron /\ startup = NoCall

\* no generator object has been constructed
NoGenerator == [class |-> None, openai_client |-> None]

InitDb ==
    /\ revision \in {"root", "project"}
    /\ openai_api_key = FALSE
    /\ openai_endpoint = FALSE
    /\ int_max_str_digits = INT_MAX_STR_DIGITS
    /\ use_sample_data \in BOOLEAN
    /\ connection \in BOOLEAN
    /\ clock = 0
    /\ exec = NoCall
    /\ sql_generator = NoGenerator
    /\ model_calls = 0
    /\ gen = NoCall
    /\ conversation_history = <<>>
    /\ NoSampleRun
    /\ NoStartup

NextDb == CallExecuteQuery \/ ExecuteQuery

SpecDb == InitDb /\ [][NextDb]_vars

(***************************************************************************)
(* Regular expressions and conversions of the generators.                  *)
(***************************************************************************)
\* the positions at which k occurs in s
Occurrences(s, k) ==
    {i \in 1..(Len(s) - Len(k) + 1) : SubSeq(s, i, i + Len(k) - 1) = k}

Least(S) == CHOOSE x \in S : \A y \in S : x <= y

\* s[i - 1], "" outside the string
CharAt(s, i) == IF i >= 1 /\ i <= Len(s) THEN SubSeq(s, i, i) ELSE ""

\* s[from - 1 : to] lies inside s and matches \d*
AllDigits(s, from, to) ==
    /\ from >= 1
    /\ to <= Len(s)
    /\ \A j \in from..to : SubSeq(s, j, j) \in Digits

RECURSIVE Remove(_, _)
\* str.replace(c, "") for a single character c
Remove(s, c) ==
    IF Len(s) = 0 THEN ""
    ELSE LET h == SubSeq(s, 1, 1)
         IN  (IF h = c THEN "" ELSE h) \o Remove(SubSeq(s, 2, Len(s)), c)

PhoneSeparators == {"-", " "}

\* where the match of 010[- ]?\d{4}[- ]?\d{4} that starts at i ends, 0 if
\* there is none; a separator is consumed exactly when it is present
PhoneMatchEnd(s, i) ==
    IF i + 2 > Len(s) \/ SubSeq(s, i, i + 2) # "010" THEN 0
    ELSE LET a == IF CharAt(s, i + 3) \in PhoneSeparators
                  THEN i + 4 ELSE i + 3
             b == a + 4
             c == IF CharAt(s, b) \in PhoneSeparators THEN b + 1 ELSE b
         IN  IF AllDigits(s, a, a + 3) /\ AllDigits(s, c, c + 3)
             THEN c + 3 ELSE 0

\* the text from the start of the match to the end of the input
phone_match_to_end(s) ==
    LET starts == {i \in Occurrences(s, "010") : PhoneMatchEnd(s, i) > 0}
    IN  IF starts = {} THEN None
        ELSE SubSeq(s, Least(starts), Len(s))

\* re.search(r"010[- ]?\d{4}[- ]?\d{4}", s): group(), or None
phone_match(s) ==
    LET starts == {i \in Occurrences(s, "010") : PhoneMatchEnd(s, i) > 0}
    IN  IF starts = {} THEN None
        ELSE LET i == Least(starts)
             IN  SubSeq(s, i, PhoneMatchEnd(s, i))

\* phone_match.group() used as it was matched
phone_digits_unreplaced(group) == group

\* phone_match.group().replace("-", "").replace(" ", "")
phone_digits(group) == Remove(Remove(group, "-"), " ")

\* re.search(r"(\d+)개?월", s): group(1), or None.  The leftmost match
\* starts at the first run of digits that 월 or 개월 follows.
month_match(s) ==
    LET begins(i) == CharAt(s, i) \in Digits /\ CharAt(s, i - 1) \notin Digits
        runEnd(i) == Least({j \in i..Len(s) : CharAt(s, j + 1) \notin Digits})
        followed(j) == \/ CharAt(s, j + 1) = "월"
                       \/ CharAt(s, j + 1) = "겜" /\ CharAt(s, j + 2) = "월"
        starts == {i \in 1..Len(s) : begins(i) /\ followed(runEnd(i))}
    IN  IF starts = {} THEN None
        ELSE LET i == Least(starts)
             IN  SubSeq(s, i, runEnd(i))

ValueError == "<ValueError>"

\* int(digits) written back by the f-string: leading zeros are dropped;
\* ValueError when the interpreter limits the number of digits
int(digits) ==
    IF int_max_str_digits > 0 /\ Len(digits) > int_max_str_digits
    THEN ValueError
    ELSE LET significant == {i \in 1..Len(digits) : SubSeq(digits, i, i) # "0"}
         IN  IF significant = {} THEN "0"
             ELSE SubSeq(digits, Least(significant), Len(digits))

\* re.search(opener \s*(.*?)\s* closer, response, re.DOTALL).group(1).strip(),
\* or None: the text between the leftmost opener that a closer follows and
\* the first such closer
FencedBlock(response, opener, closer, ignorecase) ==
    LET hay == IF ignorecase THEN Lower(response) ELSE response
        closers == Occurrences(response, closer)
        after(i) == {j \in closers : j >= i + Len(opener)}
        openers == {i \in Occurrences(hay, opener) : after(i) # {}}
    IN  IF openers = {} THEN None
        ELSE LET i == Least(openers)
                 j == Least(after(i))
             IN  Strip(SubSeq(response, i + Len(opener), j - 1))

\* SQLGenerator._extract_sql_from_response (root) and
\* OpenAISQLGenerator._extract_sql_from_response
_extract_sql_from_response(response) ==
    LET sql_match == FencedBlock(response, "´´´sql", "´´´", TRUE)
        code_match == FencedBlock(response, "´´´", "´´´", FALSE)
    IN  IF sql_match # None THEN sql_match
        ELSE IF code_match # None THEN code_match
        ELSE Strip(response)

(***************************************************************************)
(* The validators of the generators.                                       *)
(***************************************************************************)
valid_tables == <<"PY_NP_TRMN_RMNY_TXN", "PY_NP_SBSC_RMNY_TXN", "PY_DEPAZ_BAS">>

required_keywords == <<"SELECT", "FROM">>

dangerous_keywords_root ==
    <<"DROP", "DELETE", "INSERT", "UPDATE", "ALTER", "CREATE", "TRUNCATE",
      "EXEC", "EXECUTE">>

dangerous_keywords_project ==
    <<"DROP", "DELETE", "INSERT", "UPDATE", "ALTER", "CREATE", "TRUNCATE">>

\* SQLGenerator._validate_sql of src/sql_generator.py
_validate_sql_root(sql_query) ==
    LET sql_upper == Strip(Upper(sql_query))
        starts(keyword) == StartsWith(sql_upper, keyword)
        found(keyword) == Contains(sql_upper, keyword)
        missing(keyword) == ~Contains(sql_upper, keyword)
        named(table) == Contains(sql_query, table)
    IN  IF sql_query = "" \/ Strip(sql_query) = "" THEN FALSE
        ELSE IF ~starts("SELECT") /\ ~starts("WITH") THEN FALSE
        ELSE IF AnyOf(dangerous_keywords_root, found) THEN FALSE
        ELSE IF ~AnyOf(valid_tables, named) THEN FALSE
        ELSE IF AnyOf(required_keywords, missing) THEN FALSE
        ELSE TRUE

\* SQLGenerator._validate_sql of src/project/sql_generator.py
_validate_sql_project(sql_query) ==
    LET sql_upper == Strip(Upper(sql_query))
        starts(keyword) == StartsWith(sql_upper, keyword)
        found(keyword) == Contains(sql_upper, keyword)
        missing(keyword) == ~Contains(sql_upper, keyword)
        named(table) == Contains(sql_query, table)
    IN  IF ~starts("SELECT") /\ ~starts("WITH") THEN FALSE
        ELSE IF AnyOf(dangerous_keywords_project, found) THEN FALSE
        ELSE IF ~AnyOf(valid_tables, named) THEN FALSE
        ELSE IF AnyOf(required_keywords, missing) THEN FALSE
        ELSE TRUE

\* OpenAISQLGenerator._validate_generated_sql
_validate_generated_sql(sql_query) ==
    LET sql_upper == Strip(Upper(sql_query))
        starts(keyword) == StartsWith(sql_upper, keyword)
        found(keyword) == Contains(sql_upper, keyword)
        named(table) == Contains(sql_query, table)
    IN  IF sql_query = "" THEN FALSE
        ELSE IF ~starts("SELECT") /\ ~starts("WITH") THEN FALSE
        ELSE IF AnyOf(dangerous_keywords_project, found) THEN FALSE
        ELSE IF ~AnyOf(allowed_tables, named) THEN FALSE
        ELSE TRUE

\* self._validate_sql of the revision in use
_validate_sql(sql_query) ==
    IF revision = "root" THEN _validate_sql_root(sql_query)
    ELSE _validate_sql_project(sql_query)

(***************************************************************************)
(* Date and carrier filters of the rule-based path.                        *)
(***************************************************************************)
\* SQLGenerator._extract_date_filter of src/sql_generator.py
_extract_date_filter_root(user_input) ==
    IF Contains(user_input, "췜근 1겜월") \/ Contains(user_input, "췜근 헜달")
    THEN "DATEADD(month, -1, GETDATE())"
    ELSE IF Contains(user_input, "췜근 3겜월")
    THEN "DATEADD(month, -3, GETDATE())"
    ELSE IF Contains(user_input, "췜근 6겜월")
    THEN "DATEADD(month, -6, GETDATE())"
    ELSE IF Contains(user_input, "췜근 1뇄")
    THEN "DATEADD(year, -1, GETDATE())"
    ELSE LET group == month_match(user_input)
         IN  IF group # None
             THEN LET months == int(group)
                  IN  IF months = ValueError THEN ValueError
                      ELSE "DATEADD(year, -" \o months \o ", GETDATE())"
             ELSE "DATEADD(month, -3, GETDATE())"

date_patterns ==
    << <<"욤늘", "date('now')">>,
       <<"어좜", "date('now', '-1 day')">>,
       <<"쟴번주", "date('now', 'weekday 0', '-6 days')">>,
       <<"지난주", "date('now', 'weekday 0', '-13 days')">>,
       <<"쟴번달", "date('now', 'start of month')">>,
       <<"지난달", "date('now', 'start of month', '-1 month')">>,
       <<"췜근 1주쟼", "date('now', '-7 days')">>,
       <<"췜근 7쟼", "date('now', '-7 days')">>,
       <<"췜근 1겜월", "date('now', '-1 month')">>,
       <<"췜근 30쟼", "date('now', '-30 days')">>,
       <<"췜근 3겜월", "date('now', '-3 months')">>,
       <<"췜근 6겜월", "date('now', '-6 months')">>,
       <<"췜근 1뇄", "date('now', '-1 year')">> >>

\* SQLGenerator._extract_date_filter of src/project/sql_generator.py
_extract_date_filter_project(user_input) ==
    LET hits == {i \in 1..Len(date_patterns) :
                    Contains(user_input, date_patterns[i][1])}
    IN  IF hits # {} THEN date_patterns[Least(hits)][2]
        ELSE LET group == month_match(user_input)
             IN  IF group # None
                 THEN LET months == int(group)
                      IN  IF months = ValueError THEN ValueError
                          ELSE "date('now', '-" \o months \o " months')"
                 ELSE "date('now', '-3 months')"

date_mapping ==
    << <<"date('now')", "CAST(GETDATE() AS DATE)">>,
       <<"date('now', '-1 day')", "DATEADD(day, -1, GETDATE())">>,
       <<"date('now', '-7 days')", "DATEADD(day, -7, GETDATE())">>,
       <<"date('now', '-1 month')", "DATEADD(month, -1, GETDATE())">>,
       <<"date('now', '-3 months')", "DATEADD(month, -3, GETDATE())">>,
       <<"date('now', '-6 months')", "DATEADD(month, -6, GETDATE())">>,
       <<"date('now', '-1 year')", "DATEADD(year, -1, GETDATE())">> >>

\* SQLGenerator._convert_to_azure_date_filter of src/sql_generator.py
_convert_to_azure_date_filter(date_filter) ==
    LET hits == {i \in 1..Len(date_mapping) : date_mapping[i][1] = date_filter}
    IN  IF hits # {} THEN date_mapping[Least(hits)][2]
        ELSE "DATEADD(month, -3, GETDATE())"

operator_mapping ==
    << <<"KT", "KT">>, <<"SKT", "SKT">>, <<"SK퇔뢈쿤", "SKT">>,
       <<"SK", "SKT">>, <<"LGU+", "LGU+">>, <<"LG잠햌러스", "LGU+">>,
       <<"LG", "LGU+">>, <<"잠햌러스", "LGU+">>, <<"KT MVNO", "KT MVNO">>,
       <<"SKT MVNO", "SKT MVNO">>, <<"LGU+ MVNO", "LGU+ MVNO">> >>

port_in_operator_filter ==
    "AND BCHNG_COMM_CMPN_ID = (SELECT BCHNG_COMM_CMPN_ID FROM "
    \o "PY_NP_SBSC_RMNY_TXN WHERE BCHNG_COMM_CMPN_ID IN ('KT', 'SKT', "
    \o "'LGU+', 'KT MVNO', 'SKT MVNO', 'LGU+ MVNO') LIMIT 1)"

port_out_operator_filter ==
    "AND ACHNG_COMM_CMPN_ID = (SELECT ACHNG_COMM_CMPN_ID FROM "
    \o "PY_NP_TRMN_RMNY_TXN WHERE ACHNG_COMM_CMPN_ID IN ('KT', 'SKT', "
    \o "'LGU+', 'KT MVNO', 'SKT MVNO', 'LGU+ MVNO') LIMIT 1)"

\* SQLGenerator._extract_operator_filter of src/project/sql_generator.py:
\* the first key of the mapping that decides
_extract_operator_filter_project(user_input) ==
    LET port_in(i) == /\ Contains(user_input, operator_mapping[i][1])
                      /\ Contains(user_input, "포트쟸")
        port_out(i) == /\ Contains(user_input, operator_mapping[i][1])
                       /\ Contains(user_input, "포트엄웃")
        hits == {i \in 1..Len(operator_mapping) : port_in(i) \/ port_out(i)}
    IN  IF hits = {} THEN ""
        ELSE IF port_in(Least(hits)) THEN port_in_operator_filter
        ELSE port_out_operator_filter

\* SQLGenerator._extract_operator_filter of src/sql_generator.py
_extract_operator_filter_root(user_input) ==
    LET hit(i) == Contains(Lower(user_input), Lower(operator_mapping[i][1]))
        hits == {i \in 1..Len(operator_mapping) : hit(i)}
    IN  IF hits = {} THEN ""
        ELSE LET value == operator_mapping[Least(hits)][2]
             IN  "AND (BCHNG_COMM_CMPN_ID = '" \o value
                 \o "' OR ACHNG_COMM_CMPN_ID = '" \o value \o "')"

\* the lambdas of date_func in generate_rule_based_sql_query (src/main.py)
now_minus_months(months) ==
    "DATEADD(month, -" \o ToString(months) \o ", GETDATE())"

format_month(col) == "FORMAT(" \o col \o ", 'yyyy-MM')"

substr_phone(col) == "LEFT(" \o col \o ", 3) + '****' + RIGHT(" \o col \o ", 4)"

(***************************************************************************)
(* The SQL templates.                                                      *)
(***************************************************************************)
\* src/sql_generator.py:238-250 (_generate_rule_based_sql)
rule_monthly_port_in_sql(date_filter) ==
    "\n"
    \o "                SELECT \n"
    \o "                    FORMAT(TRT_DATE, 'yyyy-MM') as 월,\n"
    \o "                    BCHNG_COMM_CMPN_ID as 좄사업자,\n"
    \o "                    COUNT(*) as 춝곴슘,\n"
    \o "                    SUM(SETL_AMT) as 춝꺈엡,\n"
    \o "                    ROUND(AVG(CAST(SETL_AMT AS FLOAT)), 0) as 평균꺈엡\n"
    \o "                FROM PY_NP_SBSC_RMNY_TXN \n"
    \o "                WHERE TRT_DATE >= " \o date_filter \o "\n"
    \o "                    AND NP_STTUS_CD IN ('OK', 'WD')\n"
    \o "                GROUP BY FORMAT(TRT_DATE, 'yyyy-MM'), BCHNG_COMM_CMPN_ID\n"
    \o "                ORDER BY 월 DESC, 춝꺈엡 DESC\n"
    \o "                "

\* src/sql_generator.py:252-264 (_generate_rule_based_sql)
rule_monthly_port_out_sql(date_filter) ==
    "\n"
    \o "                SELECT \n"
    \o "                    FORMAT(NP_TRMN_DATE, 'yyyy-MM') as 월,\n"
    \o "                    ACHNG_COMM_CMPN_ID as 좄사업자,\n"
    \o "                    COUNT(*) as 춝곴슘,\n"
    \o "                    SUM(PAY_AMT) as 춝꺈엡,\n"
    \o "                    ROUND(AVG(CAST(PAY_AMT AS FLOAT)), 0) as 평균꺈엡\n"
    \o "                FROM PY_NP_TRMN_RMNY_TXN \n"
    \o "                WHERE NP_TRMN_DATE >= " \o date_filter \o "\n"
    \o "                    AND NP_TRMN_DTL_STTUS_VAL IN ('1', '3')\n"
    \o "                GROUP BY FORMAT(NP_TRMN_DATE, 'yyyy-MM'), ACHNG_COMM_CMPN_ID\n"
    \o "                ORDER BY 월 DESC, 춝꺈엡 DESC\n"
    \o "                "

\* src/sql_generator.py:270-291 (_generate_rule_based_sql)
rule_phone_sql(phone) ==
    "\n"
    \o "            SELECT \n"
    \o "                'PORT_IN' as 번횸쟴동타입,\n"
    \o "                TRT_DATE as 번횸쟴동쟼,\n"
    \o "                LEFT(TEL_NO, 3) + '****' + RIGHT(TEL_NO, 4) as 좄훔번횸,\n"
    \o "                SETL_AMT as 좕산꺈엡,\n"
    \o "                BCHNG_COMM_CMPN_ID as 사업자,\n"
    \o "                NP_STTUS_CD as 상태\n"
    \o "            FROM PY_NP_SBSC_RMNY_TXN \n"
    \o "            WHERE TEL_NO = '" \o phone \o "' AND NP_STTUS_CD IN ('OK', 'WD')\n"
    \o "            UNION ALL\n"
    \o "            SELECT \n"
    \o "                'PORT_OUT' as 번횸쟴동타입,\n"
    \o "                NP_TRMN_DATE as 번횸쟴동쟼,\n"
    \o "                LEFT(TEL_NO, 3) + '****' + RIGHT(TEL_NO, 4) as 좄훔번횸,\n"
    \o "                PAY_AMT as 좕산꺈엡,\n"
    \o "                ACHNG_COMM_CMPN_ID as 사업자,\n"
    \o "                NP_TRMN_DTL_STTUS_VAL as 상태\n"
    \o "            FROM PY_NP_TRMN_RMNY_TXN \n"
    \o "            WHERE TEL_NO = '" \o phone \o "' AND NP_TRMN_DTL_STTUS_VAL IN ('1', '3')\n"
    \o "            ORDER BY 번횸쟴동쟼 DESC\n"
    \o "            "

\* src/sql_generator.py:295-318 (_generate_rule_based_sql)
rule_operator_sql(date_filter) ==
    "\n"
    \o "            SELECT \n"
    \o "                BCHNG_COMM_CMPN_ID as 사업자,\n"
    \o "                'PORT_IN' as 타입,\n"
    \o "                COUNT(*) as 곴슘,\n"
    \o "                SUM(SETL_AMT) as 춝꺈엡,\n"
    \o "                ROUND(AVG(CAST(SETL_AMT AS FLOAT)), 0) as 평균꺈엡\n"
    \o "            FROM PY_NP_SBSC_RMNY_TXN\n"
    \o "            WHERE TRT_DATE >= " \o date_filter \o "\n"
    \o "                AND NP_STTUS_CD IN ('OK', 'WD')\n"
    \o "            GROUP BY BCHNG_COMM_CMPN_ID\n"
    \o "            UNION ALL\n"
    \o "            SELECT \n"
    \o "                ACHNG_COMM_CMPN_ID as 사업자,\n"
    \o "                'PORT_OUT' as 타입,\n"
    \o "                COUNT(*) as 곴슘,\n"
    \o "                SUM(PAY_AMT) as 춝꺈엡,\n"
    \o "                ROUND(AVG(CAST(PAY_AMT AS FLOAT)), 0) as 평균꺈엡\n"
    \o "            FROM PY_NP_TRMN_RMNY_TXN\n"
    \o "            WHERE NP_TRMN_DATE >= " \o date_filter \o "\n"
    \o "                AND NP_TRMN_DTL_STTUS_VAL IN ('1', '3')\n"
    \o "            GROUP BY ACHNG_COMM_CMPN_ID\n"
    \o "            ORDER BY 사업자, 타입\n"
    \o "            "

\* src/sql_generator.py:598-615 (_generate_deposit_query)
_generate_deposit_query_root(operator_filter, date_filter) ==
    "\n"
    \o "        SELECT \n"
    \o "            BILL_ACC_ID,\n"
    \o "            COUNT(*) as deposit_count,\n"
    \o "            SUM(DEPAZ_AMT) as total_deposit,\n"
    \o "            ROUND(AVG(CAST(DEPAZ_AMT AS FLOAT)), 0) as avg_deposit,\n"
    \o "            MIN(DEPAZ_AMT) as min_deposit,\n"
    \o "            MAX(DEPAZ_AMT) as max_deposit,\n"
    \o "            FORMAT(RMNY_DATE, 'yyyy-MM') as deposit_month,\n"
    \o "            DEPAZ_DIV_CD as deposit_type,\n"
    \o "            RMNY_METH_CD as payment_method\n"
    \o "        FROM PY_DEPAZ_BAS\n"
    \o "        WHERE RMNY_DATE >= " \o _convert_to_azure_date_filter(date_filter) \o "\n"
    \o "            AND RMNY_METH_CD = 'NA'\n"
    \o "            AND DEPAZ_DIV_CD = '10'\n"
    \o "        GROUP BY BILL_ACC_ID, FORMAT(RMNY_DATE, 'yyyy-MM'), DEPAZ_DIV_CD, RMNY_METH_CD\n"
    \o "        ORDER BY deposit_month DESC, total_deposit DESC\n"
    \o "        "

\* src/sql_generator.py:619-685 (_generate_anomaly_detection_query)
_generate_anomaly_detection_query_root(date_filter) ==
    "\n"
    \o "        WITH monthly_stats AS (\n"
    \o "            SELECT \n"
    \o "                'PORT_IN' as port_type,\n"
    \o "                FORMAT(TRT_DATE, 'yyyy-MM') as month,\n"
    \o "                BCHNG_COMM_CMPN_ID as operator_code,\n"
    \o "                COUNT(*) as monthly_count,\n"
    \o "                SUM(SETL_AMT) as monthly_amount\n"
    \o "            FROM PY_NP_SBSC_RMNY_TXN \n"
    \o "            WHERE TRT_DATE >= " \o date_filter \o " AND NP_STTUS_CD IN ('OK', 'WD')\n"
    \o "            GROUP BY strftime('%Y-%m', TRT_DATE), BCHNG_COMM_CMPN_ID\n"
    \o "            UNION ALL\n"
    \o "            SELECT \n"
    \o "                'PORT_OUT' as port_type,\n"
    \o "                FORMAT(NP_TRMN_DATE, 'yyyy-MM') as month,\n"
    \o "                ACHNG_COMM_CMPN_ID as operator_code,\n"
    \o "                COUNT(*) as monthly_count,\n"
    \o "                SUM(PAY_AMT) as monthly_amount\n"
    \o "            FROM PY_NP_TRMN_RMNY_TXN \n"
    \o "            WHERE NP_TRMN_DATE >= " \o date_filter \o " AND NP_TRMN_DTL_STTUS_VAL IN ('1', '3')\n"
    \o "            GROUP BY strftime('%Y-%m', NP_TRMN_DATE), ACHNG_COMM_CMPN_ID\n"
    \o "        ),\n"
    \o "        growth_analysis AS (\n"
    \o "            SELECT \n"
    \o "                port_type,\n"
    \o "                month,\n"
    \o "                operator_code,\n"
    \o "                monthly_amount,\n"
    \o "                LAG(monthly_amount) OVER (\n"
    \o "                    PARTITION BY operator_code, port_type \n"
    \o "                    ORDER BY month\n"
    \o "                ) as prev_month_amount,\n"
    \o "                CASE \n"
    \o "                    WHEN LAG(monthly_amount) OVER (\n"
    \o "                        PARTITION BY operator_code, port_type \n"
    \o "                        ORDER BY month\n"
    \o "                    ) > 0 THEN\n"
    \o "                        ROUND(\n"
    \o "                            (monthly_amount - LAG(monthly_amount) OVER (\n"
    \o "                                PARTITION BY operator_code, port_type \n"
    \o "                                ORDER BY month\n"
    \o "                            )) * 100.0 / LAG(monthly_amount) OVER (\n"
    \o "                                PARTITION BY operator_code, port_type \n"
    \o "                                ORDER BY month\n"
    \o "                            ), 2\n"
    \o "                        )\n"
    \o "                    ELSE NULL\n"
    \o "                END as growth_rate\n"
    \o "            FROM monthly_stats\n"
    \o "        )\n"
    \o "        SELECT \n"
    \o "            month,\n"
    \o "            operator_code,\n"
    \o "            port_type,\n"
    \o "            monthly_amount,\n"
    \o "            prev_month_amount,\n"
    \o "            growth_rate,\n"
    \o "            CASE \n"
    \o "                WHEN ABS(growth_rate) >= 50 THEN '⚠➀ 꺉격헜 변훔'\n"
    \o "                WHEN ABS(growth_rate) >= 30 THEN '➁ 탰 변훔'\n"
    \o "                WHEN ABS(growth_rate) >= 20 THEN '➂ 변훔 겐지'\n"
    \o "                ELSE '➡➀ 좕상 범임'\n"
    \o "            END as alert_level\n"
    \o "        FROM growth_analysis\n"
    \o "        WHERE growth_rate IS NOT NULL\n"
    \o "        ORDER BY ABS(growth_rate) DESC, month DESC\n"
    \o "        "

\* src/sql_generator.py:728-746 (_get_default_query)
_get_default_query_root ==
    "\n"
    \o "        SELECT \n"
    \o "            'PORT_IN' as 번횸쟴동타입,\n"
    \o "            COUNT(*) as 곰래곴슘,\n"
    \o "            SUM(SETL_AMT) as 춝꺈엡,\n"
    \o "            ROUND(AVG(SETL_AMT), 0) as 평균꺈엡\n"
    \o "        FROM PY_NP_SBSC_RMNY_TXN\n"
    \o "        WHERE TRT_DATE >= DATEADD(month, -1, GETDATE())\n"
    \o "            AND NP_STTUS_CD IN ('OK', 'WD')\n"
    \o "        UNION ALL\n"
    \o "        SELECT \n"
    \o "            'PORT_OUT' as 번횸쟴동타입,\n"
    \o "            COUNT(*) as 곰래곴슘,\n"
    \o "            SUM(PAY_AMT) as 춝꺈엡,\n"
    \o "            ROUND(AVG(PAY_AMT), 0) as 평균꺈엡\n"
    \o "        FROM PY_NP_TRMN_RMNY_TXN\n"
    \o "        WHERE NP_TRMN_DATE >= DATEADD(month, -1, GETDATE())\n"
    \o "            AND NP_TRMN_DTL_STTUS_VAL IN ('1', '3')\n"
    \o "        "

\* src/project/sql_generator.py:291-306 (_generate_monthly_trend_query)
monthly_port_in_project(operator_filter, date_filter) ==
    "\n"
    \o "            SELECT \n"
    \o "                strftime('%Y-%m', TRT_DATE) as month,\n"
    \o "                BCHNG_COMM_CMPN_ID as operator_code,\n"
    \o "                COUNT(*) as transaction_count,\n"
    \o "                SUM(SETL_AMT) as total_amount,\n"
    \o "                ROUND(AVG(SETL_AMT), 0) as avg_amount,\n"
    \o "                MIN(SETL_AMT) as min_amount,\n"
    \o "                MAX(SETL_AMT) as max_amount\n"
    \o "            FROM PY_NP_SBSC_RMNY_TXN \n"
    \o "            WHERE TRT_DATE >= " \o date_filter \o " \n"
    \o "                AND NP_STTUS_CD IN ('OK', 'WD')\n"
    \o "                " \o operator_filter \o "\n"
    \o "            GROUP BY strftime('%Y-%m', TRT_DATE), BCHNG_COMM_CMPN_ID\n"
    \o "            ORDER BY month DESC, total_amount DESC\n"
    \o "            "

\* src/project/sql_generator.py:309-324 (_generate_monthly_trend_query)
monthly_port_out_project(operator_filter, date_filter) ==
    "\n"
    \o "            SELECT \n"
    \o "                strftime('%Y-%m', NP_TRMN_DATE) as month,\n"
    \o "                BCHNG_COMM_CMPN_ID as operator_code,\n"
    \o "                COUNT(*) as transaction_count,\n"
    \o "                SUM(PAY_AMT) as total_amount,\n"
    \o "                ROUND(AVG(PAY_AMT), 0) as avg_amount,\n"
    \o "                MIN(PAY_AMT) as min_amount,\n"
    \o "                MAX(PAY_AMT) as max_amount\n"
    \o "            FROM PY_NP_TRMN_RMNY_TXN \n"
    \o "            WHERE NP_TRMN_DATE >= " \o date_filter \o " \n"
    \o "                AND NP_TRMN_DTL_STTUS_VAL IN ('1', '3')\n"
    \o "                " \o operator_filter \o "\n"
    \o "            GROUP BY strftime('%Y-%m', NP_TRMN_DATE), BCHNG_COMM_CMPN_ID\n"
    \o "            ORDER BY month DESC, total_amount DESC\n"
    \o "            "

\* src/project/sql_generator.py:328-367 (_generate_monthly_trend_query)
monthly_combined_project(operator_filter, date_filter) ==
    "\n"
    \o "            WITH monthly_data AS (\n"
    \o "                SELECT \n"
    \o "                    strftime('%Y-%m', TRT_DATE) as month,\n"
    \o "                    'PORT_IN' as port_type,\n"
    \o "                    BCHNG_COMM_CMPN_ID as operator_code,\n"
    \o "                    COUNT(*) as transaction_count,\n"
    \o "                    SUM(SETL_AMT) as total_amount,\n"
    \o "                    ROUND(AVG(SETL_AMT), 0) as avg_amount\n"
    \o "                FROM PY_NP_SBSC_RMNY_TXN \n"
    \o "                WHERE TRT_DATE >= " \o date_filter \o " \n"
    \o "                    AND NP_STTUS_CD IN ('OK', 'WD')\n"
    \o "                    " \o operator_filter \o "\n"
    \o "                GROUP BY strftime('%Y-%m', TRT_DATE), BCHNG_COMM_CMPN_ID\n"
    \o "                \n"
    \o "                UNION ALL\n"
    \o "                \n"
    \o "                SELECT \n"
    \o "                    strftime('%Y-%m', NP_TRMN_DATE) as month,\n"
    \o "                    'PORT_OUT' as port_type,\n"
    \o "                    BCHNG_COMM_CMPN_ID as operator_code,\n"
    \o "                    COUNT(*) as transaction_count,\n"
    \o "                    SUM(PAY_AMT) as total_amount,\n"
    \o "                    ROUND(AVG(PAY_AMT), 0) as avg_amount\n"
    \o "                FROM PY_NP_TRMN_RMNY_TXN \n"
    \o "                WHERE NP_TRMN_DATE >= " \o date_filter \o " \n"
    \o "                    AND NP_TRMN_DTL_STTUS_VAL IN ('1', '3')\n"
    \o "                    " \o operator_filter \o "\n"
    \o "                GROUP BY strftime('%Y-%m', NP_TRMN_DATE), BCHNG_COMM_CMPN_ID\n"
    \o "            )\n"
    \o "            SELECT \n"
    \o "                month,\n"
    \o "                port_type,\n"
    \o "                operator_code,\n"
    \o "                transaction_count,\n"
    \o "                total_amount,\n"
    \o "                avg_amount\n"
    \o "            FROM monthly_data\n"
    \o "            ORDER BY month DESC, operator_code, port_type\n"
    \o "            "

\* src/project/sql_generator.py:374-413 (_generate_phone_search_query)
phone_history_project(phone) ==
    "\n"
    \o "            WITH phone_history AS (\n"
    \o "                SELECT \n"
    \o "                    'PORT_IN' as port_type,\n"
    \o "                    TRT_DATE as transaction_date,\n"
    \o "                    SUBSTR(TEL_NO, 1, 3) || '****' || SUBSTR(TEL_NO, -4) as masked_phone,\n"
    \o "                    SVC_CONT_ID,\n"
    \o "                    SETL_AMT as settlement_amount,\n"
    \o "                    BCHNG_COMM_CMPN_ID as operator_code,\n"
    \o "                    NP_STTUS_CD as status,\n"
    \o "                    '포트쟸: ' || BCHNG_COMM_CMPN_ID || '에솜 ' || ACHNG_COMM_CMPN_ID || '룜 쟴동' as description\n"
    \o "                FROM PY_NP_SBSC_RMNY_TXN \n"
    \o "                WHERE TEL_NO = '" \o phone \o "' AND NP_STTUS_CD IN ('OK', 'WD')\n"
    \o "                \n"
    \o "                UNION ALL\n"
    \o "                \n"
    \o "                SELECT \n"
    \o "                    'PORT_OUT' as port_type,\n"
    \o "                    NP_TRMN_DATE as transaction_date,\n"
    \o "                    SUBSTR(TEL_NO, 1, 3) || '****' || SUBSTR(TEL_NO, -4) as masked_phone,\n"
    \o "                    SVC_CONT_ID,\n"
    \o "                    PAY_AMT as settlement_amount,\n"
    \o "                    BCHNG_COMM_CMPN_ID as operator_code,\n"
    \o "                    NP_TRMN_DTL_STTUS_VAL as status,\n"
    \o "                    '포트엄웃: ' || BCHNG_COMM_CMPN_ID || '에솜 ' || ACHNG_COMM_CMPN_ID || '룜 쟴동' as description\n"
    \o "                FROM PY_NP_TRMN_RMNY_TXN \n"
    \o "                WHERE TEL_NO = '" \o phone \o "' AND NP_TRMN_DTL_STTUS_VAL IN ('1', '3')\n"
    \o "            )\n"
    \o "            SELECT \n"
    \o "                port_type,\n"
    \o "                transaction_date,\n"
    \o "                masked_phone,\n"
    \o "                SVC_CONT_ID as service_contract_id,\n"
    \o "                settlement_amount,\n"
    \o "                operator_code,\n"
    \o "                status,\n"
    \o "                description\n"
    \o "            FROM phone_history\n"
    \o "            ORDER BY transaction_date DESC\n"
    \o "            "

\* src/project/sql_generator.py:420-477 (_generate_operator_comparison_query)
_generate_operator_comparison_query_project(operator_filter, date_filter) ==
    "\n"
    \o "        WITH operator_summary AS (\n"
    \o "            SELECT \n"
    \o "                BCHNG_COMM_CMPN_ID as operator_code,\n"
    \o "                'PORT_IN' as port_type,\n"
    \o "                COUNT(*) as transaction_count,\n"
    \o "                SUM(SETL_AMT) as total_amount,\n"
    \o "                ROUND(AVG(SETL_AMT), 0) as avg_amount,\n"
    \o "                MIN(SETL_AMT) as min_amount,\n"
    \o "                MAX(SETL_AMT) as max_amount\n"
    \o "            FROM PY_NP_SBSC_RMNY_TXN\n"
    \o "            WHERE TRT_DATE >= " \o date_filter \o " \n"
    \o "                AND NP_STTUS_CD IN ('OK', 'WD')\n"
    \o "                " \o operator_filter \o "\n"
    \o "            GROUP BY BCHNG_COMM_CMPN_ID\n"
    \o "            \n"
    \o "            UNION ALL\n"
    \o "            \n"
    \o "            SELECT \n"
    \o "                BCHNG_COMM_CMPN_ID as operator_code,\n"
    \o "                'PORT_OUT' as port_type,\n"
    \o "                COUNT(*) as transaction_count,\n"
    \o "                SUM(PAY_AMT) as total_amount,\n"
    \o "                ROUND(AVG(PAY_AMT), 0) as avg_amount,\n"
    \o "                MIN(PAY_AMT) as min_amount,\n"
    \o "                MAX(PAY_AMT) as max_amount\n"
    \o "            FROM PY_NP_TRMN_RMNY_TXN\n"
    \o "            WHERE NP_TRMN_DATE >= " \o date_filter \o " \n"
    \o "                AND NP_TRMN_DTL_STTUS_VAL IN ('1', '3')\n"
    \o "                " \o operator_filter \o "\n"
    \o "            GROUP BY BCHNG_COMM_CMPN_ID\n"
    \o "        ),\n"
    \o "        ranked_operators AS (\n"
    \o "            SELECT \n"
    \o "                *,\n"
    \o "                RANK() OVER (PARTITION BY port_type ORDER BY total_amount DESC) as amount_rank,\n"
    \o "                RANK() OVER (PARTITION BY port_type ORDER BY transaction_count DESC) as count_rank\n"
    \o "            FROM operator_summary\n"
    \o "        )\n"
    \o "        SELECT \n"
    \o "            operator_code,\n"
    \o "            port_type,\n"
    \o "            transaction_count,\n"
    \o "            total_amount,\n"
    \o "            avg_amount,\n"
    \o "            min_amount,\n"
    \o "            max_amount,\n"
    \o "            amount_rank,\n"
    \o "            count_rank,\n"
    \o "            CASE \n"
    \o "                WHEN amount_rank = 1 THEN '➅ 1임'\n"
    \o "                WHEN amount_rank = 2 THEN '➆ 2임' \n"
    \o "                WHEN amount_rank = 3 THEN '➇ 3임'\n"
    \o "                ELSE CAST(amount_rank AS TEXT) || '임'\n"
    \o "            END as ranking_display\n"
    \o "        FROM ranked_operators\n"
    \o "        ORDER BY port_type, amount_rank\n"
    \o "        "

\* src/project/sql_generator.py:481-498 (_generate_deposit_query)
_generate_deposit_query_project(operator_filter, date_filter) ==
    "\n"
    \o "        SELECT \n"
    \o "            BILL_ACC_ID as account_id,\n"
    \o "            COUNT(*) as deposit_count,\n"
    \o "            SUM(DEPAZ_AMT) as total_deposit,\n"
    \o "            ROUND(AVG(DEPAZ_AMT), 0) as avg_deposit,\n"
    \o "            MIN(DEPAZ_AMT) as min_deposit,\n"
    \o "            MAX(DEPAZ_AMT) as max_deposit,\n"
    \o "            strftime('%Y-%m', RMNY_DATE) as deposit_month,\n"
    \o "            DEPAZ_DIV_CD as deposit_type,\n"
    \o "            RMNY_METH_CD as payment_method\n"
    \o "        FROM PY_DEPAZ_BAS\n"
    \o "        WHERE RMNY_DATE >= " \o date_filter \o "\n"
    \o "            AND RMNY_METH_CD = 'NA'\n"
    \o "            AND DEPAZ_DIV_CD = '10'\n"
    \o "        GROUP BY BILL_ACC_ID, strftime('%Y-%m', RMNY_DATE), DEPAZ_DIV_CD, RMNY_METH_CD\n"
    \o "        ORDER BY deposit_month DESC, total_deposit DESC\n"
    \o "        "

\* src/project/sql_generator.py:502-570 (_generate_anomaly_detection_query)
_generate_anomaly_detection_query_project(date_filter) ==
    "\n"
    \o "        WITH monthly_stats AS (\n"
    \o "            SELECT \n"
    \o "                strftime('%Y-%m', TRT_DATE) as month,\n"
    \o "                BCHNG_COMM_CMPN_ID as operator_code,\n"
    \o "                'PORT_IN' as port_type,\n"
    \o "                COUNT(*) as monthly_count,\n"
    \o "                SUM(SETL_AMT) as monthly_amount\n"
    \o "            FROM PY_NP_SBSC_RMNY_TXN \n"
    \o "            WHERE TRT_DATE >= " \o date_filter \o " AND NP_STTUS_CD IN ('OK', 'WD')\n"
    \o "            GROUP BY strftime('%Y-%m', TRT_DATE), BCHNG_COMM_CMPN_ID\n"
    \o "            \n"
    \o "            UNION ALL\n"
    \o "            \n"
    \o "            SELECT \n"
    \o "                strftime('%Y-%m', NP_TRMN_DATE) as month,\n"
    \o "                BCHNG_COMM_CMPN_ID as operator_code,\n"
    \o "                'PORT_OUT' as port_type,\n"
    \o "                COUNT(*) as monthly_count,\n"
    \o "                SUM(PAY_AMT) as monthly_amount\n"
    \o "            FROM PY_NP_TRMN_RMNY_TXN \n"
    \o "            WHERE NP_TRMN_DATE >= " \o date_filter \o " AND NP_TRMN_DTL_STTUS_VAL IN ('1', '3')\n"
    \o "            GROUP BY strftime('%Y-%m', NP_TRMN_DATE), BCHNG_COMM_CMPN_ID\n"
    \o "        ),\n"
    \o "        growth_analysis AS (\n"
    \o "            SELECT \n"
    \o "                month,\n"
    \o "                operator_code,\n"
    \o "                port_type,\n"
    \o "                monthly_amount,\n"
    \o "                LAG(monthly_amount) OVER (\n"
    \o "                    PARTITION BY operator_code, port_type \n"
    \o "                    ORDER BY month\n"
    \o "                ) as prev_month_amount,\n"
    \o "                CASE \n"
    \o "                    WHEN LAG(monthly_amount) OVER (\n"
    \o "                        PARTITION BY operator_code, port_type \n"
    \o "                        ORDER BY month\n"
    \o "                    ) > 0 THEN\n"
    \o "                        ROUND(\n"
    \o "                            (monthly_amount - LAG(monthly_amount) OVER (\n"
    \o "                                PARTITION BY operator_code, port_type \n"
    \o "                                ORDER BY month\n"
    \o "                            )) * 100.0 / LAG(monthly_amount) OVER (\n"
    \o "                                PARTITION BY operator_code, port_type \n"
    \o "                                ORDER BY month\n"
    \o "                            ), 2\n"
    \o "                        )\n"
    \o "                    ELSE NULL\n"
    \o "                END as growth_rate\n"
    \o "            FROM monthly_stats\n"
    \o "        )\n"
    \o "        SELECT \n"
    \o "            month,\n"
    \o "            operator_code,\n"
    \o "            port_type,\n"
    \o "            monthly_amount,\n"
    \o "            prev_month_amount,\n"
    \o "            growth_rate,\n"
    \o "            CASE \n"
    \o "                WHEN ABS(growth_rate) >= 50 THEN '⚠➀ 꺉격헜 변훔'\n"
    \o "                WHEN ABS(growth_rate) >= 30 THEN '➁ 탰 변훔'\n"
    \o "                WHEN ABS(growth_rate) >= 20 THEN '➂ 변훔 겐지'\n"
    \o "                ELSE '➡➀ 좕상 범임'\n"
    \o "            END as alert_level\n"
    \o "        FROM growth_analysis\n"
    \o "        WHERE growth_rate IS NOT NULL\n"
    \o "        ORDER BY ABS(growth_rate) DESC, month DESC\n"
    \o "        "

\* src/project/sql_generator.py:574-611 (_generate_summary_query)
_generate_summary_query_project(date_filter) ==
    "\n"
    \o "        WITH summary_stats AS (\n"
    \o "            SELECT \n"
    \o "                'PORT_IN' as port_type,\n"
    \o "                COUNT(*) as transaction_count,\n"
    \o "                SUM(SETL_AMT) as total_amount,\n"
    \o "                ROUND(AVG(SETL_AMT), 0) as avg_amount,\n"
    \o "                MIN(SETL_AMT) as min_amount,\n"
    \o "                MAX(SETL_AMT) as max_amount\n"
    \o "            FROM PY_NP_SBSC_RMNY_TXN\n"
    \o "            WHERE TRT_DATE >= " \o date_filter \o " AND NP_STTUS_CD IN ('OK', 'WD')\n"
    \o "            \n"
    \o "            UNION ALL\n"
    \o "            \n"
    \o "            SELECT \n"
    \o "                'PORT_OUT' as port_type,\n"
    \o "                COUNT(*) as transaction_count,\n"
    \o "                SUM(PAY_AMT) as total_amount,\n"
    \o "                ROUND(AVG(PAY_AMT), 0) as avg_amount,\n"
    \o "                MIN(PAY_AMT) as min_amount,\n"
    \o "                MAX(PAY_AMT) as max_amount\n"
    \o "            FROM PY_NP_TRMN_RMNY_TXN\n"
    \o "            WHERE NP_TRMN_DATE >= " \o date_filter \o " AND NP_TRMN_DTL_STTUS_VAL IN ('1', '3')\n"
    \o "        )\n"
    \o "        SELECT \n"
    \o "            port_type,\n"
    \o "            transaction_count,\n"
    \o "            total_amount,\n"
    \o "            avg_amount,\n"
    \o "            min_amount,\n"
    \o "            max_amount,\n"
    \o "            CASE \n"
    \o "                WHEN port_type = 'PORT_IN' THEN '➄ 포트쟸 (검입)'\n"
    \o "                ELSE '➃ 포트엄웃 (헴지)'\n"
    \o "            END as type_display\n"
    \o "        FROM summary_stats\n"
    \o "        ORDER BY total_amount DESC\n"
    \o "        "

\* src/project/sql_generator.py:615-631 (_get_default_query)
_get_default_query_project ==
    "\n"
    \o "        SELECT \n"
    \o "            'PORT_IN' as port_type,\n"
    \o "            COUNT(*) as transaction_count,\n"
    \o "            SUM(SETL_AMT) as total_amount,\n"
    \o "            ROUND(AVG(SETL_AMT), 0) as avg_amount\n"
    \o "        FROM PY_NP_SBSC_RMNY_TXN\n"
    \o "        WHERE TRT_DATE >= date('now', '-1 months') AND NP_STTUS_CD IN ('OK', 'WD')\n"
    \o "        UNION ALL\n"
    \o "        SELECT \n"
    \o "            'PORT_OUT' as port_type,\n"
    \o "            COUNT(*) as transaction_count,\n"
    \o "            SUM(PAY_AMT) as total_amount,\n"
    \o "            ROUND(AVG(PAY_AMT), 0) as avg_amount\n"
    \o "        FROM PY_NP_TRMN_RMNY_TXN\n"
    \o "        WHERE NP_TRMN_DATE >= date('now', '-1 months') AND NP_TRMN_DTL_STTUS_VAL IN ('1', '3')\n"
    \o "        "

\* src/main.py:842-854 (generate_rule_based_sql_query)
main_monthly_port_in_sql ==
    "\n"
    \o "            SELECT \n"
    \o "                " \o format_month("TRT_DATE") \o " as 번횸쟴동월,\n"
    \o "                BCHNG_COMM_CMPN_ID as 좄사업자,\n"
    \o "                COUNT(*) as 춝곴슘,\n"
    \o "                SUM(SETL_AMT) as 춝꺈엡,\n"
    \o "                CAST(AVG(SETL_AMT) AS INT) as 좕산꺈엡평균\n"
    \o "            FROM PY_NP_SBSC_RMNY_TXN \n"
    \o "            WHERE TRT_DATE >= " \o now_minus_months(6) \o "\n"
    \o "                AND NP_STTUS_CD IN ('OK', 'WD')\n"
    \o "            GROUP BY " \o format_month("TRT_DATE") \o ", BCHNG_COMM_CMPN_ID\n"
    \o "            ORDER BY 번횸쟴동월 DESC, 춝꺈엡 DESC\n"
    \o "            "

\* src/main.py:856-869 (generate_rule_based_sql_query)
main_monthly_port_out_sql ==
    "\n"
    \o "            SELECT \n"
    \o "                " \o format_month("NP_TRMN_DATE") \o " as 번횸쟴동월,\n"
    \o "                BCHNG_COMM_CMPN_ID as 좄사업자,\n"
    \o "                COUNT(*) as 춝곴슘,\n"
    \o "                SUM(PAY_AMT) as 춝꺈엡,\n"
    \o "                CAST(AVG(PAY_AMT) AS INT) as 좕산꺈엡평균\n"
    \o "            FROM PY_NP_TRMN_RMNY_TXN \n"
    \o "            WHERE NP_TRMN_DATE IS NOT NULL \n"
    \o "                AND NP_TRMN_DATE >= " \o now_minus_months(4) \o "\n"
    \o "                AND NP_TRMN_DTL_STTUS_VAL IN ('1', '3')\n"
    \o "            GROUP BY " \o format_month("NP_TRMN_DATE") \o ", BCHNG_COMM_CMPN_ID\n"
    \o "            ORDER BY 번횸쟴동월 DESC, 춝꺈엡 DESC\n"
    \o "            "

\* src/main.py:875-900 (generate_rule_based_sql_query)
main_phone_sql(phone) ==
    "\n"
    \o "        SELECT \n"
    \o "            'PORT_IN' as 번횸쟴동타입,\n"
    \o "            TRT_DATE as 번횸쟴동쟼,\n"
    \o "            " \o substr_phone("TEL_NO") \o " as 좄훔번횸,\n"
    \o "            SVC_CONT_ID,\n"
    \o "            SETL_AMT as 좕산꺈엡,\n"
    \o "            BCHNG_COMM_CMPN_ID as 좄사업자,\n"
    \o "            ACHNG_COMM_CMPN_ID as 후사업자,\n"
    \o "            NP_STTUS_CD as 상태\n"
    \o "        FROM PY_NP_SBSC_RMNY_TXN \n"
    \o "        WHERE TEL_NO = '" \o phone \o "' AND NP_STTUS_CD IN ('OK', 'WD')\n"
    \o "        UNION ALL\n"
    \o "        SELECT \n"
    \o "            'PORT_OUT' as 번횸쟴동타입,\n"
    \o "            NP_TRMN_DATE as 번횸쟴동쟼,\n"
    \o "            " \o substr_phone("TEL_NO") \o " as 좄훔번횸,\n"
    \o "            SVC_CONT_ID,\n"
    \o "            PAY_AMT as 좕산꺈엡,\n"
    \o "            BCHNG_COMM_CMPN_ID as 좄사업자,\n"
    \o "            ACHNG_COMM_CMPN_ID as 후사업자,\n"
    \o "            NP_TRMN_DTL_STTUS_VAL as 상태\n"
    \o "        FROM PY_NP_TRMN_RMNY_TXN \n"
    \o "        WHERE TEL_NO = '" \o phone \o "' AND NP_TRMN_DTL_STTUS_VAL IN ('1', '3')\n"
    \o "        ORDER BY 번횸쟴동쟼 DESC\n"
    \o "        "

\* src/main.py:952-982 (generate_rule_based_sql_query)
main_operator_sql(operator_filter, is_azure) ==
    "\n"
    \o "        SELECT \n"
    \o "            BCHNG_COMM_CMPN_ID as 사업자,\n"
    \o "            'PORT_IN' as 번횸쟴동타입,\n"
    \o "            COUNT(*) as 번횸쟴동곴슘,\n"
    \o "            SUM(SETL_AMT) as 춝좕산꺈엡,\n"
    \o "            " \o (IF ~is_azure THEN "ROUND(AVG(SETL_AMT), 0)" ELSE "CAST(AVG(SETL_AMT) AS INT)") \o " as 좕산꺈엡평균,\n"
    \o "            MIN(CAST(TRT_DATE AS DATE)) as 췜춈쟼자,\n"
    \o "            MAX(CAST(TRT_DATE AS DATE)) as 췜신쟼자\n"
    \o "        FROM PY_NP_SBSC_RMNY_TXN\n"
    \o "        WHERE TRT_DATE >= " \o now_minus_months(3) \o "\n"
    \o "            AND NP_STTUS_CD IN ('OK', 'WD')\n"
    \o "            " \o operator_filter \o "\n"
    \o "        GROUP BY BCHNG_COMM_CMPN_ID\n"
    \o "        UNION ALL\n"
    \o "        SELECT \n"
    \o "            BCHNG_COMM_CMPN_ID as 사업자,\n"
    \o "            'PORT_OUT' as 번횸쟴동타입,\n"
    \o "            COUNT(*) as 번횸쟴동곴슘,\n"
    \o "            SUM(PAY_AMT) as 춝좕산꺈엡,\n"
    \o "            CAST(AVG(PAY_AMT) AS INT)' as 좕산꺈엡평균,\n"
    \o "            MIN(CAST(NP_TRMN_DATE AS DATE))' as 췜춈쟼자,\n"
    \o "            MAX(CAST(NP_TRMN_DATE AS DATE))' as 췜신쟼자\n"
    \o "        FROM PY_NP_TRMN_RMNY_TXN\n"
    \o "        WHERE NP_TRMN_DATE IS NOT NULL \n"
    \o "            AND NP_TRMN_DATE >= " \o now_minus_months(3) \o "\n"
    \o "            AND NP_TRMN_DTL_STTUS_VAL IN ('1', '3')\n"
    \o "            " \o operator_filter \o "\n"
    \o "        GROUP BY BCHNG_COMM_CMPN_ID\n"
    \o "        ORDER BY 사업자, 번횸쟴동타입\n"
    \o "        "

\* src/main.py:1005-1021 (generate_rule_based_sql_query)
main_deposit_sql ==
    "\n"
    \o "        SELECT \n"
    \o "            " \o format_month("RMNY_DATE") \o " as 슘납월,\n"
    \o "            COUNT(*) as 춝곴슘,\n"
    \o "            SUM(DEPAZ_AMT) as 춝꺈엡,\n"
    \o "            CAST(AVG(DEPAZ_AMT) AS INT) as 평균꺈엡,\n"
    \o "            MIN(DEPAZ_AMT) as 췜소꺈엡,\n"
    \o "            MAX(DEPAZ_AMT) as 췜뎀꺈엡,\n"
    \o "            DEPAZ_DIV_CD as 욈컘꺈귬분,\n"
    \o "            RMNY_METH_CD as 슘납벩법\n"
    \o "        FROM PY_DEPAZ_BAS\n"
    \o "        WHERE RMNY_DATE >= " \o now_minus_months(3) \o "\n"
    \o "            AND DEPAZ_DIV_CD = '10'\n"
    \o "            AND RMNY_METH_CD = 'NA'\n"
    \o "        GROUP BY " \o format_month("RMNY_DATE") \o ", DEPAZ_DIV_CD, RMNY_METH_CD\n"
    \o "        ORDER BY 슘납월 DESC\n"
    \o "        "

\* src/main.py:1024-1028 (generate_rule_based_sql_query)
main_default_sql ==
    "\n"
    \o "    SELECT \n"
    \o "        'OpenAI 벏 규컙 꺰벘 쿼리 생솱쟄 시도했잼나 좁좈헜 쿼리맼 생솱험지 못했습니다' as 뫔시지,\n"
    \o "        '돔 귬체좁잼룜 질뮸헴주시곰나 욈시 쿼리맼 사용헴보솸요' as 었내\n"
    \o "    "

(***************************************************************************)
(* The rule-based path.                                                    *)
(***************************************************************************)
monthly_keywords == <<"월별", "추쟴", "트뢌드", "변훔", "펨톴", "증겐">>

operator_keywords == <<"사업자", "회사", "통신사", "뻄귐", "횄훩", "슜임">>

deposit_keywords == <<"욈컘꺈", "보증꺈", "입꺈">>

anomaly_keywords ==
    <<"쟴상", "꺉증", "꺉겐", "변훔", "증검", "겐소", "쟴상컘">>

\* any(keyword in user_input for keyword in keywords)
AnyKeyword(keywords, user_input) ==
    \E i \in 1..Len(keywords) : Contains(user_input, keywords[i])

_is_monthly_trend_query(user_input) == AnyKeyword(monthly_keywords, user_input)

_is_phone_search_query(user_input) == phone_match(user_input) # None

_is_operator_comparison_query(user_input) ==
    AnyKeyword(operator_keywords, user_input)

_is_deposit_query(user_input) == AnyKeyword(deposit_keywords, user_input)

_is_anomaly_detection_query(user_input) ==
    AnyKeyword(anomaly_keywords, user_input)

rule_operator_keywords == <<"사업자", "회사", "통신사", "횄훩">>

\* the tests of _generate_rule_based_sql with the phone lookup moved in
\* front of the monthly trend
_generate_rule_based_sql_phone_first(user_input) ==
    LET user_input_lower == Lower(user_input)
        date_filter == _extract_date_filter_root(user_input_lower)
        has(keyword) == Contains(user_input_lower, keyword)
        monthly == has("월별") \/ has("추쟴")
        group == phone_match(user_input)
    IN  IF date_filter = ValueError THEN ValueError
        ELSE IF group # None THEN rule_phone_sql(phone_digits(group))
        ELSE IF monthly /\ has("포트쟸")
        THEN rule_monthly_port_in_sql(date_filter)
        ELSE IF monthly /\ has("포트엄웃")
        THEN rule_monthly_port_out_sql(date_filter)
        ELSE IF AnyKeyword(rule_operator_keywords, user_input_lower)
        THEN rule_operator_sql(date_filter)
        ELSE _get_default_query_root

\* SQLGenerator._generate_rule_based_sql of src/sql_generator.py; a monthly
\* keyword without 포트인 or 포트아웃 falls through to the later tests
_generate_rule_based_sql_root(user_input) ==
    LET user_input_lower == Lower(user_input)
        date_filter == _extract_date_filter_root(user_input_lower)
        has(keyword) == Contains(user_input_lower, keyword)
        monthly == has("월별") \/ has("추쟴")
        group == phone_match(user_input)
    IN  IF date_filter = ValueError THEN ValueError
        ELSE IF monthly /\ has("포트쟸")
        THEN rule_monthly_port_in_sql(date_filter)
        ELSE IF monthly /\ has("포트엄웃")
        THEN rule_monthly_port_out_sql(date_filter)
        ELSE IF group # None THEN rule_phone_sql(phone_digits(group))
        ELSE IF AnyKeyword(rule_operator_keywords, user_input_lower)
        THEN rule_operator_sql(date_filter)
        ELSE _get_default_query_root

\* SQLGenerator._generate_monthly_trend_query of src/project/sql_generator.py
_generate_monthly_trend_query_project(user_input, operator_filter, date_filter) ==
    IF Contains(user_input, "포트쟸") \/ Contains(user_input, "검입")
    THEN monthly_port_in_project(operator_filter, date_filter)
    ELSE IF Contains(user_input, "포트엄웃") \/ Contains(user_input, "헴지")
    THEN monthly_port_out_project(operator_filter, date_filter)
    ELSE monthly_combined_project(operator_filter, date_filter)

\* SQLGenerator._generate_phone_search_query of src/project/sql_generator.py
_generate_phone_search_query_project(user_input) ==
    LET group == phone_match(user_input)
    IN  IF group # None THEN phone_history_project(phone_digits(group))
        ELSE _get_default_query_project

\* SQLGenerator._generate_rule_based_sql of src/project/sql_generator.py
_generate_rule_based_sql_project(user_input) ==
    LET user_input_lower == Lower(user_input)
        operator_filter == _extract_operator_filter_project(user_input_lower)
        date_filter == _extract_date_filter_project(user_input_lower)
    IN  IF date_filter = ValueError THEN ValueError
        ELSE IF _is_monthly_trend_query(user_input_lower)
        THEN _generate_monthly_trend_query_project(
                 user_input_lower, operator_filter, date_filter)
        ELSE IF _is_phone_search_query(user_input)
        THEN _generate_phone_search_query_project(user_input)
        ELSE IF _is_operator_comparison_query(user_input_lower)
        THEN _generate_operator_comparison_query_project(
                 operator_filter, date_filter)
        ELSE IF _is_deposit_query(user_input_lower)
        THEN _generate_deposit_query_project(operator_filter, date_filter)
        ELSE IF _is_anomaly_detection_query(user_input_lower)
        THEN _generate_anomaly_detection_query_project(date_filter)
        ELSE _generate_summary_query_project(date_filter)

_generate_rule_based_sql(user_input) ==
    IF revision = "root" THEN _generate_rule_based_sql_root(user_input)
    ELSE _generate_rule_based_sql_project(user_input)

_get_default_query ==
    IF revision = "root" THEN _get_default_query_root
    ELSE _get_default_query_project

main_operator_keywords == <<"사업자", "회사", "통신사", "skt", "kt", "lg">>

\* generate_rule_based_sql_query of src/main.py
generate_rule_based_sql_query(user_input, is_azure) ==
    LET user_input_lower == Lower(user_input)
        has(keyword) == Contains(user_input_lower, keyword)
        monthly == has("월별") \/ has("추쟴")
        group == phone_match(user_input)
        operator_filter ==
            IF has("skt") \/ has("sk")
            THEN "AND (BCHNG_COMM_CMPN_ID = 'SKT' OR ACHNG_COMM_CMPN_ID = 'SKT')"
            ELSE IF has("kt")
            THEN "AND (BCHNG_COMM_CMPN_ID = 'KT' OR ACHNG_COMM_CMPN_ID = 'KT')"
            ELSE IF has("lg")
            THEN "AND (BCHNG_COMM_CMPN_ID = 'LGU+' OR ACHNG_COMM_CMPN_ID = 'LGU+')"
            ELSE ""
    IN  IF monthly /\ has("포트쟸") THEN main_monthly_port_in_sql
        ELSE IF monthly /\ has("포트엄웃") THEN main_monthly_port_out_sql
        ELSE IF group # None THEN main_phone_sql(phone_digits(group))
        ELSE IF AnyKeyword(main_operator_keywords, user_input_lower)
        THEN main_operator_sql(operator_filter, is_azure)
        ELSE IF has("욈컘꺈") THEN main_deposit_sql
        ELSE main_default_sql

(***************************************************************************)
(* The model endpoint.  An outcome is what one chat.completions.create     *)
(* call does: it raises, or it returns a message whose content is a text   *)
(* or None.                                                                *)
(***************************************************************************)
NoModelCall == [kind |-> "none"]

Raises(message) == [kind |-> "raises", message |-> message]

Content(content) == [kind |-> "content", content |-> content]

MASKED_SQL ==
    "SELECT LEFT(TEL_NO, 3) + '****' + RIGHT(TEL_NO, 4) AS phone "
    \o "FROM PY_NP_SBSC_RMNY_TXN"

COUNT_SQL == "SELECT COUNT(*) AS cnt FROM PY_DEPAZ_BAS"

BARE_PHONE_SQL == "SELECT TEL_NO, SETL_AMT FROM PY_NP_SBSC_RMNY_TXN"

BULK_SQL == "SELECT bulk_id FROM PY_DEPAZ_BAS"

EXEC_SQL == "SELECT 1 FROM PY_DEPAZ_BAS; EXEC sp_who"

LONG_SQL ==
    "SELECT 1 AS a," \o Repeat(" ", MAX_QUERY_LENGTH)
    \o " 2 AS b FROM PY_DEPAZ_BAS"

Json(sql_query, tenths) ==
    "{\"sql_query\": \"" \o sql_query \o "\", \"confidence\": 0."
    \o ToString(tenths) \o "}"

ModelContents ==
    { MASKED_SQL,
      "다쟌 쿼리입니다:\n´´´SQL\n" \o COUNT_SQL \o "\n´´´\n월별 곴슘입니다.",
      "´´´sql\n" \o COUNT_SQL \o "\n´´´",
      BARE_PHONE_SQL,
      BULK_SQL,
      EXEC_SQL,
      LONG_SQL,
      "DROP TABLE PY_DEPAZ_BAS",
      "죄송헩니다. 요청쟄 쟴헴험지 못했습니다.",
      Json(COUNT_SQL, 9),
      Json("DELETE FROM PY_DEPAZ_BAS", 9),
      Json(COUNT_SQL, 5),
      None }

ModelErrors == {"Error code: 404 - DeploymentNotFound", "Request timed out."}

ModelOutcomes ==
    {Raises(message) : message \in ModelErrors}
    \cup {Content(content) : content \in ModelContents}

\* SQLGenerator._generate_ai_sql of src/sql_generator.py: after a swallowed
\* 404 the name response is unbound, and the outer except returns None
_generate_ai_sql_root(outcome) ==
    IF outcome.kind = "raises" THEN None
    ELSE IF outcome.content = None THEN None
    ELSE _extract_sql_from_response(Strip(outcome.content))

\* SQLGenerator._generate_ai_sql of src/project/sql_generator.py
_generate_ai_sql_project(outcome) ==
    IF outcome.kind = "raises" THEN None
    ELSE IF outcome.content = None THEN None
    ELSE LET sql_query == Strip(outcome.content)
             sql_match == FencedBlock(sql_query, "´´´sql", "´´´", FALSE)
         IN  IF sql_match # None THEN sql_match ELSE sql_query

_generate_ai_sql(outcome) ==
    IF revision = "root" THEN _generate_ai_sql_root(outcome)
    ELSE _generate_ai_sql_project(outcome)

JSON_HEAD == "{\"sql_query\": \""

JSON_MIDDLE == "\", \"confidence\": 0."

JSONDecodeError == [error |-> "JSONDecodeError"]

\* json.loads on the texts the endpoint returns: an object with a sql_query
\* string free of escapes and a confidence 0.d; any other text of
\* ModelContents is not JSON
json_loads(text) ==
    LET n == Len(text)
        tail == Len(JSON_MIDDLE) + 2
    IN  IF /\ n >= Len(JSON_HEAD) + tail
           /\ StartsWith(text, JSON_HEAD)
           /\ SubSeq(text, n - tail + 1, n - 2) = JSON_MIDDLE
           /\ SubSeq(text, n - 1, n - 1) \in Digits
           /\ SubSeq(text, n, n) = "}"
           /\ ~Contains(SubSeq(text, Len(JSON_HEAD) + 1, n - tail), "\"")
        THEN [error |-> None,
              sql_query |-> SubSeq(text, Len(JSON_HEAD) + 1, n - tail),
              confidence |-> IndexIn(SubSeq(text, n - 1, n - 1),
                                     "0123456789") - 1]
        ELSE JSONDecodeError

(***************************************************************************)
(* The generators.  A result records, next to what the call returned, the  *)
(* intermediate values it went through: ai_sql is the SQL taken from the   *)
(* model's answer (None when there was none), rule_sql the value of the    *)
(* rule-based path (None when it was not run, ValueError when it raised).  *)
(***************************************************************************)
Result(sql, used_ai, ai_sql, ai_valid, rule_sql) ==
    [phase |-> "returned", sql |-> sql, used_ai |-> used_ai,
     ai_sql |-> ai_sql, ai_valid |-> ai_valid, rule_sql |-> rule_sql]

\* SQLGenerator.generate_sql of src/sql_generator.py.  The outer except is
\* not reachable: nothing outside the two inner try blocks raises.
generate_sql_root(user_input, outcome) ==
    LET ai_sql == IF sql_generator.openai_client # None
                  THEN _generate_ai_sql_root(outcome) ELSE None
        ai_valid == ai_sql # None /\ ai_sql # "" /\ _validate_sql_root(ai_sql)
        rule_sql == _generate_rule_based_sql_root(user_input)
        rule_valid == /\ rule_sql # ValueError
                      /\ rule_sql # ""
                      /\ _validate_sql_root(rule_sql)
    IN  IF ai_valid THEN Result(ai_sql, TRUE, ai_sql, TRUE, None)
        ELSE IF rule_valid
        THEN Result(rule_sql, FALSE, ai_sql, FALSE, rule_sql)
        ELSE Result(_get_default_query_root, FALSE, ai_sql, FALSE, rule_sql)

\* generate_sql of src/project/sql_generator.py without its try/except
generate_sql_project_unguarded(user_input, outcome) ==
    LET ai_sql == IF sql_generator.openai_client # None
                  THEN _generate_ai_sql_project(outcome) ELSE None
        ai_valid == /\ ai_sql # None
                    /\ ai_sql # ""
                    /\ _validate_sql_project(ai_sql)
        rule_sql == _generate_rule_based_sql_project(user_input)
    IN  IF ai_valid THEN Result(ai_sql, TRUE, ai_sql, TRUE, None)
        ELSE IF rule_sql = ValueError
        THEN [Result(None, FALSE, ai_sql, FALSE, rule_sql)
                 EXCEPT !.phase = "raised"]
        ELSE Result(rule_sql, FALSE, ai_sql, FALSE, rule_sql)

\* SQLGenerator.generate_sql of src/project/sql_generator.py: the rule-based
\* SQL is returned as it is; an exception ends in the default query
generate_sql_project(user_input, outcome) ==
    LET ai_sql == IF sql_generator.openai_client # None
                  THEN _generate_ai_sql_project(outcome) ELSE None
        ai_valid == /\ ai_sql # None
                    /\ ai_sql # ""
                    /\ _validate_sql_project(ai_sql)
        rule_sql == _generate_rule_based_sql_project(user_input)
    IN  IF ai_valid THEN Result(ai_sql, TRUE, ai_sql, TRUE, None)
        ELSE IF rule_sql = ValueError
        THEN Result(_get_default_query_project, FALSE, ai_sql, FALSE, rule_sql)
        ELSE Result(rule_sql, FALSE, ai_sql, FALSE, rule_sql)

generate_sql(user_input, outcome) ==
    IF revision = "root" THEN generate_sql_root(user_input, outcome)
    ELSE generate_sql_project(user_input, outcome)

CONFIDENCE_TENTHS == 7

Failure == [failed |-> TRUE]

\* generate_sql_with_openai of src/main.py: AzureOpenAI(...) raises when no
\* endpoint is configured; every exception is raised again
generate_sql_with_openai_main(outcome) ==
    IF ~openai_endpoint THEN Failure
    ELSE IF outcome.kind = "raises" THEN Failure
    ELSE IF outcome.content = None THEN Failure
    ELSE LET result == json_loads(outcome.content)
             sql_match == FencedBlock(outcome.content, "´´´sql\n", "\n´´´", FALSE)
         IN  IF result # JSONDecodeError
             THEN [failed |-> FALSE, sql_query |-> result.sql_query,
                   confidence |-> result.confidence]
             ELSE IF sql_match # None
             THEN [failed |-> FALSE, sql_query |-> sql_match, confidence |-> 8]
             ELSE Failure

\* generate_sql_query of src/main.py: the model's SQL is returned on its
\* confidence alone; used_ai says which of the two returns was taken
generate_sql_query(user_input, is_azure, outcome) ==
    LET openai_result == IF openai_api_key
                         THEN generate_sql_with_openai_main(outcome)
                         ELSE Failure
        rule_sql == generate_rule_based_sql_query(user_input, is_azure)
    IN  IF ~openai_result.failed /\ openai_result.confidence > CONFIDENCE_TENTHS
        THEN Result(openai_result.sql_query, TRUE, openai_result.sql_query,
                    _validate_sql_root(openai_result.sql_query), None)
        ELSE Result(rule_sql, FALSE,
                    IF openai_result.failed THEN None
                    ELSE openai_result.sql_query,
                    FALSE, rule_sql)

\* OpenAISQLGenerator.generate_sql_with_openai: ("", False, message) on
\* every failure
generate_sql_with_openai(user_input, outcome) ==
    LET sql_query == IF \/ sql_generator.openai_client = None
                        \/ outcome.kind = "raises"
                        \/ outcome.content = None
                     THEN None
                     ELSE _extract_sql_from_response(Strip(outcome.content))
    IN  IF sql_query # None /\ _validate_generated_sql(sql_query)
        THEN Result(sql_query, TRUE, sql_query, TRUE, None)
        ELSE Result("", FALSE, sql_query, FALSE, None)

(***************************************************************************)
(* Construction and calls of the generators.                               *)
(***************************************************************************)
MaxModelCalls == 2

\* get_openai_client without the test of the two settings
get_openai_client_unguarded(installed) ==
    IF ~installed THEN [client |-> None, calls |-> 0]
    ELSE [client |-> "AzureOpenAI",
          calls |-> IF revision = "root" THEN 1 ELSE 0]

\* AzureConfig.get_openai_client: None without a key or an endpoint, or
\* when the openai library cannot be imported; src/azure_config.py then
\* makes one test call and returns the client whatever the test did
get_openai_client(installed) ==
    IF ~openai_api_key \/ ~openai_endpoint
    THEN [client |-> None, calls |-> 0]
    ELSE IF ~installed THEN [client |-> None, calls |-> 0]
    ELSE [client |-> "AzureOpenAI",
          calls |-> IF revision = "root" THEN 1 ELSE 0]

GeneratorClasses ==
    IF revision = "root" THEN {"SQLGenerator"}
    ELSE {"SQLGenerator", "OpenAISQLGenerator"}

\* SQLGenerator.__init__ / OpenAISQLGenerator.__init__
Construct ==
    /\ sql_generator = NoGenerator
    /\ \E class \in GeneratorClasses, installed \in BOOLEAN :
          LET made == get_openai_client(installed)
          IN  /\ model_calls + made.calls <= MaxModelCalls
              /\ model_calls' = model_calls + made.calls
              /\ sql_generator' = [class |-> class,
                                   openai_client |-> made.client]
    /\ UNCHANGED <<configVars, sampleVars, managerVars, dbVars, chatVars, gen>>

LongDigits == Repeat("9", INT_MAX_STR_DIGITS + 1)

UserInputs ==
    { "월별 포트쟸 횄훩쟄 엌뢤즘",
      "포트엄웃 추쟴 췜근 6겜월",
      "월별 사업자",
      "변훔 펨톴",
      "010-1234-5678 번횸 죰회",
      "월별 포트쟸 01012345678",
      "SKT 통신사 횄훩 췜근 02겜월",
      "욈컘꺈 입꺈",
      "욈컘꺈 증검",
      "쟴상 징후 탐지",
      "었뇕험솸요",
      "",
      LongDigits \o "겜월 포트쟸 추쟴" }

Called(entry, user_input, is_azure) ==
    [phase |-> "called", entry |-> entry, user_input |-> user_input,
     is_azure |-> is_azure]

\* what the call returned, with the call it belongs to, the number of
\* requests it sent to the model endpoint and the outcome of the last one
Return(result, calls, outcome) ==
    result @@ [entry |-> gen.entry, user_input |-> gen.user_input,
               is_azure |-> gen.is_azure, calls |-> calls,
               outcome |-> outcome]

\* the chat box calls sql_generator.generate_sql(user_input)
CallGenerateSql ==
    /\ gen.phase # "called"
    /\ sql_generator.class = "SQLGenerator"
    /\ \E user_input \in UserInputs :
          gen' = Called("generate_sql", user_input, FALSE)
    /\ UNCHANGED <<configVars, sampleVars, managerVars, dbVars, chatVars, sql_generator, model_calls>>

\* the outcomes of the model call a generator makes, NoModelCall if none
OutcomesOf(calls) == IF calls > 0 THEN ModelOutcomes ELSE {NoModelCall}

\* the handler of entry runs to its end, sending calls requests;
\* result[outcome] is what it returns when the last request ends in outcome
Finish(entry, calls, result) ==
    /\ gen.phase = "called"
    /\ gen.entry = entry
    /\ model_calls + calls <= MaxModelCalls
    /\ \E outcome \in OutcomesOf(calls) :
          /\ model_calls' = model_calls + calls
          /\ gen' = Return(result[outcome], calls, outcome)
    /\ UNCHANGED <<configVars, sampleVars, managerVars, dbVars, chatVars, sql_generator>>

GenerateSql ==
    LET calls == IF sql_generator.openai_client # None THEN 1 ELSE 0
        result == [outcome \in OutcomesOf(calls) |->
                      generate_sql(gen.user_input, outcome)]
    IN  Finish("generate_sql", calls, result)

\* generate_sql_query of src/main.py
CallGenerateSqlQuery ==
    /\ gen.phase # "called"
    /\ revision = "root"
    /\ \E user_input \in UserInputs, is_azure \in BOOLEAN :
          gen' = Called("generate_sql_query", user_input, is_azure)
    /\ UNCHANGED <<configVars, sampleVars, managerVars, dbVars, chatVars, sql_generator, model_calls>>

\* with a key and an endpoint generate_sql_with_openai sends its request
\* after get_database_schema_info has constructed a SQLGenerator, whose
\* get_openai_client sends the test request
GenerateSqlQuery ==
    LET calls == IF openai_api_key /\ openai_endpoint
                 THEN get_openai_client(TRUE).calls + 1 ELSE 0
        result == [outcome \in OutcomesOf(calls) |->
                      generate_sql_query(gen.user_input, gen.is_azure, outcome)]
    IN  Finish("generate_sql_query", calls, result)

\* OpenAISQLGenerator.generate_sql_with_openai
CallGenerateSqlWithOpenai ==
    /\ gen.phase # "called"
    /\ sql_generator.class = "OpenAISQLGenerator"
    /\ \E user_input \in UserInputs :
          gen' = Called("generate_sql_with_openai", user_input, FALSE)
    /\ UNCHANGED <<configVars, sampleVars, managerVars, dbVars, chatVars, sql_generator, model_calls>>

GenerateSqlWithOpenai ==
    LET calls == IF sql_generator.openai_client # None THEN 1 ELSE 0
        result == [outcome \in OutcomesOf(calls) |->
                      generate_sql_with_openai(gen.user_input, outcome)]
    IN  Finish("generate_sql_with_openai", calls, result)

InitGen ==
    /\ revision \in {"root", "project"}
    /\ openai_api_key \in BOOLEAN
    /\ openai_endpoint \in BOOLEAN
    /\ int_max_str_digits \in {INT_MAX_STR_DIGITS, 0}
    /\ use_sample_data = TRUE
    /\ connection = TRUE
    /\ clock = 0
    /\ exec = NoCall
    /\ sql_generator = NoGenerator
    /\ model_calls = 0
    /\ gen = NoCall
    /\ conversation_history = <<>>
    /\ NoSampleRun
    /\ NoStartup

NextGen ==
    \/ Construct
    \/ CallGenerateSql
    \/ GenerateSql
    \/ CallGenerateSqlQuery
    \/ GenerateSqlQuery
    \/ CallGenerateSqlWithOpenai
    \/ GenerateSqlWithOpenai

SpecGen == InitGen /\ [][NextGen]_vars

(***************************************************************************)
(* The chat box of src/main.py: display_chatbot turns a question into SQL, *)
(* hands it to execute_query and appends the turn to the history.          *)
(***************************************************************************)
MaxTurns == 1

ChatInputs ==
    { "었뇕험솸요",
      "월별 포트쟸 횄훩쟄 엌뢤즘",
      "010-1234-5678 번횸 죰회",
      "욈컘꺈 입꺈" }

\* initialize_sql_generator keeps a SQLGenerator in the session only when
\* the key and the endpoint are both set
session_has_generator == openai_api_key /\ openai_endpoint

\* the user submits a question
CallChat ==
    /\ revision = "root"
    /\ gen.phase \notin {"called", "executing"}
    /\ exec.phase # "called"
    /\ Len(conversation_history) < MaxTurns
    /\ session_has_generator => sql_generator.class = "SQLGenerator"
    /\ \E user_input \in ChatInputs :
          gen' = Called("display_chatbot", user_input, ~use_sample_data)
    /\ UNCHANGED <<configVars, sampleVars, managerVars, dbVars, chatVars, sql_generator, model_calls>>

\* the SQL of the turn: sql_generator.generate_sql when the session has a
\* generator, generate_rule_based_sql_query otherwise
chat_sql(user_input, is_azure, outcome) ==
    IF session_has_generator THEN generate_sql_root(user_input, outcome)
    ELSE LET rule_sql == generate_rule_based_sql_query(user_input, is_azure)
         IN  Result(rule_sql, FALSE, None, FALSE, rule_sql)

\* display_chatbot up to the call of db_manager.execute_query; a blank
\* query ends the turn with "SQL 쿼리를 생성할 수 없습니다"
ChatGenerate ==
    /\ gen.phase = "called"
    /\ gen.entry = "display_chatbot"
    /\ LET calls == IF /\ session_has_generator
                       /\ sql_generator.openai_client # None
                    THEN 1 ELSE 0
       IN  /\ model_calls + calls <= MaxModelCalls
           /\ model_calls' = model_calls + calls
           /\ \E outcome \in OutcomesOf(calls) :
                 LET turn == Return(chat_sql(gen.user_input, gen.is_azure,
                                             outcome), calls, outcome)
                 IN  IF turn.sql # "" /\ Strip(turn.sql) # ""
                     THEN /\ gen' = [turn EXCEPT !.phase = "executing"]
                          /\ exec' = [phase |-> "called",
                                      sql_query |-> turn.sql]
                     ELSE /\ gen' = turn
                          /\ exec' = exec
    /\ UNCHANGED <<configVars, sampleVars, managerVars, chatVars, sql_generator,
                   use_sample_data, connection, clock>>

\* the item display_chatbot appends: of its fields the model keeps the
\* flags and the row count
conversation_item ==
    [is_ai_generated |-> gen.used_ai,
     result_count |-> exec.df.rows,
     success |-> exec.metadata.success]

\* display_chatbot after execute_query returned: the turn is appended to
\* the history and result_df and metadata, locals of the turn, are dropped
ChatFinish ==
    /\ gen.phase = "executing"
    /\ gen.entry = "display_chatbot"
    /\ exec.phase = "returned"
    /\ conversation_history' = Append(conversation_history, conversation_item)
    /\ gen' = [gen EXCEPT !.phase = "returned"]
    /\ exec' = NoCall
    /\ UNCHANGED <<configVars, sampleVars, managerVars, use_sample_data, connection, clock,
                   sql_generator, model_calls>>

InitChat ==
    /\ revision = "root"
    /\ openai_api_key \in BOOLEAN
    /\ openai_endpoint \in BOOLEAN
    /\ int_max_str_digits = INT_MAX_STR_DIGITS
    /\ use_sample_data \in BOOLEAN
    /\ connection \in BOOLEAN
    /\ clock = 0
    /\ exec = NoCall
    /\ sql_generator = NoGenerator
    /\ model_calls = 0
    /\ gen = NoCall
    /\ conversation_history = <<>>
    /\ NoSampleRun
    /\ NoStartup

NextChat ==
    \/ Construct
    \/ CallChat
    \/ ChatGenerate
    \/ ExecuteQuery
    \/ ChatFinish

SpecChat == InitChat /\ [][NextChat]_vars
(***************************************************************************)
(* The rule-based path on its own: _generate_rule_based_sql of the two     *)
(* SQLGenerator revisions and generate_rule_based_sql_query of the two     *)
(* main.py revisions are functions of the input (and of is_azure).         *)
(***************************************************************************)
\* the lambdas of date_func in generate_rule_based_sql_query
\* (src/project/main.py)
now_minus_months_project(months, is_azure) ==
    IF is_azure THEN "DATEADD(month, -" \o ToString(months) \o ", GETDATE())"
    ELSE "date('now', '-" \o ToString(months) \o " months')"

format_month_project(col, is_azure) ==
    IF is_azure THEN "FORMAT(" \o col \o ", 'yyyy-MM')"
    ELSE "strftime('%Y-%m', " \o col \o ")"

substr_phone_project(col, is_azure) ==
    IF is_azure
    THEN "LEFT(" \o col \o ", 3) + '****' + RIGHT(" \o col \o ", 4)"
    ELSE "SUBSTR(" \o col \o ", 1, 3) || '****' || SUBSTR(" \o col \o ", -4)"

\* src/project/main.py:657-669 (generate_rule_based_sql_query)
project_main_monthly_port_in_sql(is_azure) ==
    "\n"
    \o "            SELECT \n"
    \o "                " \o format_month_project("TRT_DATE", is_azure) \o " as 번횸쟴동월,\n"
    \o "                BCHNG_COMM_CMPN_ID as 좄사업자,\n"
    \o "                COUNT(*) as 춝곴슘,\n"
    \o "                SUM(SETL_AMT) as 춝꺈엡,\n"
    \o "                " \o (IF ~is_azure THEN "ROUND(AVG(SETL_AMT), 0)" ELSE "CAST(AVG(SETL_AMT) AS INT)") \o " as 좕산꺈엡평균\n"
    \o "            FROM PY_NP_SBSC_RMNY_TXN \n"
    \o "            WHERE TRT_DATE >= " \o now_minus_months_project(6, is_azure) \o "\n"
    \o "                AND NP_STTUS_CD IN ('OK', 'WD')\n"
    \o "            GROUP BY " \o format_month_project("TRT_DATE", is_azure) \o ", BCHNG_COMM_CMPN_ID\n"
    \o "            ORDER BY 번횸쟴동월 DESC, 춝꺈엡 DESC\n"
    \o "            "

\* src/project/main.py:671-684 (generate_rule_based_sql_query)
project_main_monthly_port_out_sql(is_azure) ==
    "\n"
    \o "            SELECT \n"
    \o "                " \o format_month_project("NP_TRMN_DATE", is_azure) \o " as 번횸쟴동월,\n"
    \o "                BCHNG_COMM_CMPN_ID as 좄사업자,\n"
    \o "                COUNT(*) as 춝곴슘,\n"
    \o "                SUM(PAY_AMT) as 춝꺈엡,\n"
    \o "                " \o (IF ~is_azure THEN "ROUND(AVG(PAY_AMT), 0)" ELSE "CAST(AVG(PAY_AMT) AS INT)") \o " as 좕산꺈엡평균\n"
    \o "            FROM PY_NP_TRMN_RMNY_TXN \n"
    \o "            WHERE NP_TRMN_DATE IS NOT NULL \n"
    \o "                AND NP_TRMN_DATE >= " \o now_minus_months_project(4, is_azure) \o "\n"
    \o "                AND NP_TRMN_DTL_STTUS_VAL IN ('1', '3')\n"
    \o "            GROUP BY " \o format_month_project("NP_TRMN_DATE", is_azure) \o ", BCHNG_COMM_CMPN_ID\n"
    \o "            ORDER BY 번횸쟴동월 DESC, 춝꺈엡 DESC\n"
    \o "            "

\* src/project/main.py:690-715 (generate_rule_based_sql_query)
project_main_phone_sql(phone, is_azure) ==
    "\n"
    \o "        SELECT \n"
    \o "            'PORT_IN' as 번횸쟴동타입,\n"
    \o "            TRT_DATE as 번횸쟴동쟼,\n"
    \o "            " \o substr_phone_project("TEL_NO", is_azure) \o " as 좄훔번횸,\n"
    \o "            SVC_CONT_ID,\n"
    \o "            SETL_AMT as 좕산꺈엡,\n"
    \o "            BCHNG_COMM_CMPN_ID as 좄사업자,\n"
    \o "            ACHNG_COMM_CMPN_ID as 후사업자,\n"
    \o "            NP_STTUS_CD as 상태\n"
    \o "        FROM PY_NP_SBSC_RMNY_TXN \n"
    \o "        WHERE TEL_NO = '" \o phone \o "' AND NP_STTUS_CD IN ('OK', 'WD')\n"
    \o "        UNION ALL\n"
    \o "        SELECT \n"
    \o "            'PORT_OUT' as 번횸쟴동타입,\n"
    \o "            NP_TRMN_DATE as 번횸쟴동쟼,\n"
    \o "            " \o substr_phone_project("TEL_NO", is_azure) \o " as 좄훔번횸,\n"
    \o "            SVC_CONT_ID,\n"
    \o "            PAY_AMT as 좕산꺈엡,\n"
    \o "            BCHNG_COMM_CMPN_ID as 좄사업자,\n"
    \o "            ACHNG_COMM_CMPN_ID as 후사업자,\n"
    \o "            NP_TRMN_DTL_STTUS_VAL as 상태\n"
    \o "        FROM PY_NP_TRMN_RMNY_TXN \n"
    \o "        WHERE TEL_NO = '" \o phone \o "' AND NP_TRMN_DTL_STTUS_VAL IN ('1', '3')\n"
    \o "        ORDER BY 번횸쟴동쟼 DESC\n"
    \o "        "

\* src/project/main.py:736-766 (generate_rule_based_sql_query)
project_main_operator_sql(operator_filter, is_azure) ==
    "\n"
    \o "        SELECT \n"
    \o "            BCHNG_COMM_CMPN_ID as 사업자,\n"
    \o "            'PORT_IN' as 번횸쟴동타입,\n"
    \o "            COUNT(*) as 번횸쟴동곴슘,\n"
    \o "            SUM(SETL_AMT) as 춝좕산꺈엡,\n"
    \o "            " \o (IF ~is_azure THEN "ROUND(AVG(SETL_AMT), 0)" ELSE "CAST(AVG(SETL_AMT) AS INT)") \o " as 좕산꺈엡평균,\n"
    \o "            " \o (IF ~is_azure THEN "MIN(TRT_DATE)" ELSE "MIN(CAST(TRT_DATE AS DATE))") \o " as 췜춈쟼자,\n"
    \o "            " \o (IF ~is_azure THEN "MAX(TRT_DATE)" ELSE "MAX(CAST(TRT_DATE AS DATE))") \o " as 췜신쟼자\n"
    \o "        FROM PY_NP_SBSC_RMNY_TXN\n"
    \o "        WHERE TRT_DATE >= " \o now_minus_months_project(3, is_azure) \o "\n"
    \o "            AND NP_STTUS_CD IN ('OK', 'WD')\n"
    \o "            " \o operator_filter \o "\n"
    \o "        GROUP BY BCHNG_COMM_CMPN_ID\n"
    \o "        UNION ALL\n"
    \o "        SELECT \n"
    \o "            BCHNG_COMM_CMPN_ID as 사업자,\n"
    \o "            'PORT_OUT' as 번횸쟴동타입,\n"
    \o "            COUNT(*) as 번횸쟴동곴슘,\n"
    \o "            SUM(PAY_AMT) as 춝좕산꺈엡,\n"
    \o "            " \o (IF ~is_azure THEN "ROUND(AVG(PAY_AMT), 0)" ELSE "CAST(AVG(PAY_AMT) AS INT)") \o " as 좕산꺈엡평균,\n"
    \o "            " \o (IF ~is_azure THEN "MIN(NP_TRMN_DATE)" ELSE "MIN(CAST(NP_TRMN_DATE AS DATE))") \o " as 췜춈쟼자,\n"
    \o "            " \o (IF ~is_azure THEN "MAX(NP_TRMN_DATE)" ELSE "MAX(CAST(NP_TRMN_DATE AS DATE))") \o " as 췜신쟼자\n"
    \o "        FROM PY_NP_TRMN_RMNY_TXN\n"
    \o "        WHERE NP_TRMN_DATE IS NOT NULL \n"
    \o "            AND NP_TRMN_DATE >= " \o now_minus_months_project(3, is_azure) \o "\n"
    \o "            AND NP_TRMN_DTL_STTUS_VAL IN ('1', '3')\n"
    \o "            " \o operator_filter \o "\n"
    \o "        GROUP BY BCHNG_COMM_CMPN_ID\n"
    \o "        ORDER BY 사업자, 번횸쟴동타입\n"
    \o "        "

\* src/project/main.py:770-786 (generate_rule_based_sql_query)
project_main_deposit_sql(is_azure) ==
    "\n"
    \o "        SELECT \n"
    \o "            " \o format_month_project("RMNY_DATE", is_azure) \o " as 슘납월,\n"
    \o "            COUNT(*) as 춝곴슘,\n"
    \o "            SUM(DEPAZ_AMT) as 춝꺈엡,\n"
    \o "            " \o (IF ~is_azure THEN "ROUND(AVG(DEPAZ_AMT), 0)" ELSE "CAST(AVG(DEPAZ_AMT) AS INT)") \o " as 평균꺈엡,\n"
    \o "            MIN(DEPAZ_AMT) as 췜소꺈엡,\n"
    \o "            MAX(DEPAZ_AMT) as 췜뎀꺈엡,\n"
    \o "            DEPAZ_DIV_CD as 욈컘꺈귬분,\n"
    \o "            RMNY_METH_CD as 슘납벩법\n"
    \o "        FROM PY_DEPAZ_BAS\n"
    \o "        WHERE RMNY_DATE >= " \o now_minus_months_project(3, is_azure) \o "\n"
    \o "            AND DEPAZ_DIV_CD = '10'\n"
    \o "            AND RMNY_METH_CD = 'NA'\n"
    \o "        GROUP BY " \o format_month_project("RMNY_DATE", is_azure) \o ", DEPAZ_DIV_CD, RMNY_METH_CD\n"
    \o "        ORDER BY 슘납월 DESC\n"
    \o "        "

\* src/project/main.py:789-793 (generate_rule_based_sql_query)
project_main_default_sql ==
    "\n"
    \o "    SELECT \n"
    \o "        'OpenAI 벏 규컙 꺰벘 쿼리 생솱쟄 시도했잼나 좁좈헜 쿼리맼 생솱험지 못했습니다' as 뫔시지,\n"
    \o "        '돔 귬체좁잼룜 질뮸헴주시곰나 욈시 쿼리맼 사용헴보솸요' as 었내\n"
    \o "    "

project_main_operator_keywords ==
    <<"사업자", "회사", "통신사", "skt", "kt", "lgu+">>

\* generate_rule_based_sql_query of src/project/main.py
generate_rule_based_sql_query_project(user_input, is_azure) ==
    LET user_input_lower == Lower(user_input)
        has(keyword) == Contains(user_input_lower, keyword)
        monthly == has("월별") \/ has("추쟴")
        group == phone_match(user_input)
        operator_filter ==
            IF has("skt") \/ has("sk")
            THEN "AND (BCHNG_COMM_CMPN_ID = 'SKT' OR ACHNG_COMM_CMPN_ID = 'SKT')"
            ELSE IF has("kt")
            THEN "AND (BCHNG_COMM_CMPN_ID = 'KT' OR ACHNG_COMM_CMPN_ID = 'KT')"
            ELSE IF has("lgu")
            THEN "AND (BCHNG_COMM_CMPN_ID = 'LGU+' OR ACHNG_COMM_CMPN_ID = 'LGU+')"
            ELSE ""
    IN  IF monthly /\ has("포트쟸")
        THEN project_main_monthly_port_in_sql(is_azure)
        ELSE IF monthly /\ has("포트엄웃")
        THEN project_main_monthly_port_out_sql(is_azure)
        ELSE IF group # None
        THEN project_main_phone_sql(phone_digits(group), is_azure)
        ELSE IF AnyKeyword(project_main_operator_keywords, user_input_lower)
        THEN project_main_operator_sql(operator_filter, is_azure)
        ELSE IF has("욈컘꺈") THEN project_main_deposit_sql(is_azure)
        ELSE project_main_default_sql

\* the questions the rule-based path is modelled to receive
RuleInputs ==
    { "010-1234-5678 번횸 죰회",
      "010 1234 5678",
      "고겝 01012345678 사업자 죰회",
      "010-1234 5678 욈컘꺈",
      "010-123-4567 번횸 죰회",
      "010-1234-5678' OR '1'='1",
      "월별 포트쟸 횄훩쟄 엌뢤즘'; DROP TABLE PY_DEPAZ_BAS --~",
      "췜근 5겜월' 사업자 횄훩 ~",
      "월별 포트쟸 01012345678",
      "월별 포트쟸 횄훩쟄 엌뢤즘",
      "췜근 6겜월 포트쟸 추쟴",
      "포트쟸 트뢌드",
      "포트엄웃 추쟴 췜근 6겜월",
      "췜근 5겜월 사업자 횄훩",
      "췜근 1뇄 통신사 뻄귐",
      "사업자 횄훩",
      "욈컘꺈 췜근 12겜월",
      "쟴상 징후 탐지 2겜월",
      "SKT 통신사 횄훩",
      "SK퇔뢈쿤 포트쟸 월별",
      "kt 포트엄웃 추쟴",
      "KT 욈컘꺈",
      "LG잠햌러스 회사 슜임",
      "SKT KT 뻄귐",
      "었뇕험솸요",
      "",
      LongDigits \o "겜월 사업자" }

\* generate_sql calls self._generate_rule_based_sql(user_input)
CallGenerateRuleBasedSql ==
    /\ gen.phase # "called"
    /\ \E user_input \in RuleInputs :
          gen' = Called("_generate_rule_based_sql", user_input, TRUE)
    /\ UNCHANGED <<configVars, sampleVars, managerVars, dbVars, chatVars, sql_generator, model_calls>>

\* what the rule-based path gave back; int() raising ValueError leaves
\* the method by the exception
RuleReturn(rule_sql) ==
    [phase |-> IF rule_sql = ValueError THEN "raised" ELSE "returned",
     entry |-> gen.entry, user_input |-> gen.user_input,
     is_azure |-> gen.is_azure, rule_sql |-> rule_sql]

\* SQLGenerator._generate_rule_based_sql
GenerateRuleBasedSql ==
    /\ gen.phase = "called"
    /\ gen.entry = "_generate_rule_based_sql"
    /\ gen' = RuleReturn(_generate_rule_based_sql(gen.user_input))
    /\ UNCHANGED <<configVars, sampleVars, managerVars, dbVars, chatVars, sql_generator, model_calls>>

\* display_chatbot or generate_sql_query calls
\* generate_rule_based_sql_query(user_input, is_azure)
CallGenerateRuleBasedSqlQuery ==
    /\ gen.phase # "called"
    /\ \E user_input \in RuleInputs, is_azure \in BOOLEAN :
          gen' = Called("generate_rule_based_sql_query", user_input, is_azure)
    /\ UNCHANGED <<configVars, sampleVars, managerVars, dbVars, chatVars, sql_generator, model_calls>>

\* generate_rule_based_sql_query of the revision's main.py
GenerateRuleBasedSqlQuery ==
    /\ gen.phase = "called"
    /\ gen.entry = "generate_rule_based_sql_query"
    /\ gen' = RuleReturn(
                 IF revision = "root"
                 THEN generate_rule_based_sql_query(gen.user_input,
                                                    gen.is_azure)
                 ELSE generate_rule_based_sql_query_project(gen.user_input,
                                                            gen.is_azure))
    /\ UNCHANGED <<configVars, sampleVars, managerVars, dbVars, chatVars, sql_generator, model_calls>>

InitRule ==
    /\ revision \in {"root", "project"}
    /\ openai_api_key = FALSE
    /\ openai_endpoint = FALSE
    /\ int_max_str_digits = INT_MAX_STR_DIGITS
    /\ use_sample_data = TRUE
    /\ connection = TRUE
    /\ clock = 0
    /\ exec = NoCall
    /\ sql_generator = NoGenerator
    /\ model_calls = 0
    /\ gen = NoCall
    /\ conversation_history = <<>>
    /\ NoSampleRun
    /\ NoStartup

NextRule ==
    \/ CallGenerateRuleBasedSql
    \/ GenerateRuleBasedSql
    \/ CallGenerateRuleBasedSqlQuery
    \/ GenerateRuleBasedSqlQuery

SpecRule == InitRule /\ [][NextRule]_vars

(***************************************************************************)
(* The sample generator on the Azure SQL Database: SampleDataManager of    *)
(* src/sample_data.py (create_database, ensure_tables_exist) and of        *)
(* src/project/sample_data.py (create_sample_database), with use_azure     *)
(* true.  azure_store.generated_keys says that the store holds rows with   *)
(* the fixed primary keys the generator writes (OUT0000001.., AT00000000..)*)
(***************************************************************************)
MaxRuns == 2

\* the row counts a table of the store is modelled to start with
RowCounts == {0, 30, 600, 1200}

\* the stores the generator may find
Stores ==
    { s \in [exists : [Tables -> BOOLEAN], rows : [Tables -> RowCounts],
             generated_keys : BOOLEAN] :
        /\ \A t \in Tables : ~s.exists[t] => s.rows[t] = 0
        /\ s.generated_keys => s.rows[PORT_OUT] > 0 }

\* what the server does with the statements of one run: whether the query
\* on INFORMATION_SCHEMA.TABLES answers, the tables whose COUNT(*) raises,
\* and whether CREATE TABLE and INSERT are carried out.  A server that
\* cannot be reached answers nothing.
Answers == [exists : BOOLEAN, uncounted : SUBSET Tables, write : BOOLEAN]

Unreachable == [exists |-> FALSE, uncounted |-> Tables, write |-> FALSE]

\* _check_azure_tables_exist / _check_tables_exist: table_count == 3, and
\* False when the query raises
_check_azure_tables_exist(store, answers) ==
    answers.exists /\ \A t \in Tables : store.exists[t]

\* _create_tables / _create_azure_tables: CREATE TABLE under IF NOT EXISTS,
\* committed
_create_tables(store) == [store EXCEPT !.exists = [t \in Tables |-> TRUE]]

\* _check_azure_data_count of src/sample_data.py: one query for the sum of
\* the three COUNT(*), and 0 when it raises
_check_azure_data_count(store, answers) ==
    IF answers.uncounted # {} THEN 0
    ELSE store.rows[PORT_OUT] + store.rows[PORT_IN] + store.rows[DEPOSIT]

DATA_COUNT_MIN == 50

ROWS_PER_TABLE == 50

\* _generate_azure_sample_data of src/sample_data.py: 50 rows into each
\* table in one transaction; a row whose primary key is in the table
\* already fails the INSERT, the transaction is rolled back and the
\* exception raised again
_generate_azure_sample_data_root(store, answers) ==
    IF ~answers.write \/ store.generated_keys
    THEN [raised |-> TRUE, store |-> store]
    ELSE [raised |-> FALSE,
          store |-> [store EXCEPT
                        !.rows = [t \in Tables |-> @[t] + ROWS_PER_TABLE],
                        !.generated_keys = TRUE]]

\* the first step of both generators: the tables are created when the
\* check does not report all three
tables_ensured(store, answers) ==
    IF _check_azure_tables_exist(store, answers)
    THEN [raised |-> FALSE, store |-> store]
    ELSE IF answers.write
    THEN [raised |-> FALSE, store |-> _create_tables(store)]
    ELSE [raised |-> TRUE, store |-> store]

\* _create_azure_database of src/sample_data.py
_create_azure_database(store, answers) ==
    LET created == tables_ensured(store, answers)
    IN  IF created.raised THEN created
        ELSE IF _check_azure_data_count(created.store, answers)
                    < DATA_COUNT_MIN
        THEN _generate_azure_sample_data_root(created.store, answers)
        ELSE created

\* ensure_tables_exist of src/sample_data.py
ensure_tables_exist(store, answers) ==
    IF _check_azure_tables_exist(store, answers)
    THEN [raised |-> FALSE, store |-> store]
    ELSE LET created == tables_ensured(store, answers)
         IN  IF created.raised THEN created
             ELSE _generate_azure_sample_data_root(created.store, answers)

\* _check_existing_data of src/project/sample_data.py: the COUNT(*) of each
\* table, and 0 for a table whose query raises
_check_existing_data(store, answers) ==
    [t \in Tables |-> IF t \in answers.uncounted THEN 0 ELSE store.rows[t]]

\* _is_sufficient_data of src/project/sample_data.py
min_requirements == [t \in Tables |-> IF t = PORT_IN THEN 600 ELSE 500]

_is_sufficient_data(data_stats) ==
    \A t \in Tables : ~(data_stats[t] < min_requirements[t])

target_counts == [t \in Tables |-> IF t = PORT_IN THEN 1200 ELSE 1000]

Max(a, b) == IF a > b THEN a ELSE b

\* _generate_azure_sample_data of src/project/sample_data.py: the port-out
\* rows carry the keys AT<batch><i>, port-in and deposit rows get IDENTITY
\* keys; one commit at the end, so a failed INSERT leaves nothing behind
_generate_azure_sample_data_project(store, existing_stats, answers) ==
    LET needed == [t \in Tables |->
                      Max(0, target_counts[t] - existing_stats[t])]
    IN  IF \/ ~answers.write
           \/ needed[PORT_OUT] > 0 /\ store.generated_keys
        THEN [raised |-> TRUE, store |-> store]
        ELSE [raised |-> FALSE,
              store |-> [store EXCEPT
                            !.rows = [t \in Tables |-> @[t] + needed[t]],
                            !.generated_keys =
                                @ \/ needed[PORT_OUT] > 0]]

\* _handle_azure_sample_data of src/project/sample_data.py
_handle_azure_sample_data(store, answers) ==
    LET created == tables_ensured(store, answers)
        data_stats == _check_existing_data(created.store, answers)
    IN  IF created.raised THEN created
        ELSE IF _is_sufficient_data(data_stats) THEN created
        ELSE _generate_azure_sample_data_project(
                 created.store, data_stats, answers)

\* the run number of the next call
NextRun == IF sample.phase = "idle" THEN 1 ELSE sample.run + 1

SampleCalled(entry, answers) ==
    [phase |-> "called", entry |-> entry, run |-> NextRun,
     answers |-> answers, before |-> azure_store,
     first |-> IF sample.phase = "idle" THEN azure_store ELSE sample.first,
     answered |-> IF sample.phase = "idle" THEN 0 ELSE sample.answered]

\* DatabaseManager or a script calls create_database (create_sample_database
\* in src/project) of a SampleDataManager with use_azure true
CallCreateDatabase ==
    /\ sample.phase # "called"
    /\ NextRun <= MaxRuns
    /\ \E answers \in Answers :
          sample' = SampleCalled("create_database", answers)
    /\ UNCHANGED <<configVars, dbVars, genVars, chatVars, managerVars, azure_store>>

\* what a run did: raised says that the Azure path left by an exception,
\* local that the run went on to the local SQLite database; answered
\* counts the runs whose every statement the server answered
SampleReturn(phase, raised, local) ==
    [phase |-> phase, entry |-> sample.entry, run |-> sample.run,
     before |-> sample.before, first |-> sample.first,
     answered |-> sample.answered
                  + (IF /\ sample.answers.exists
                        /\ sample.answers.uncounted = {}
                        /\ sample.answers.write THEN 1 ELSE 0),
     raised |-> raised, local |-> local]

\* create_database / create_sample_database: every exception of the Azure
\* path ends in the local SQLite database
CreateDatabase ==
    /\ sample.phase = "called"
    /\ sample.entry = "create_database"
    /\ LET done == IF revision = "root"
                   THEN _create_azure_database(azure_store, sample.answers)
                   ELSE _handle_azure_sample_data(azure_store, sample.answers)
       IN  /\ azure_store' = done.store
           /\ sample' = SampleReturn("returned", done.raised, done.raised)
    /\ UNCHANGED <<configVars, dbVars, genVars, chatVars, managerVars>>

\* _initialize_azure_connection of src/database_manager.py calls
\* sample_manager.ensure_tables_exist()
CallEnsureTablesExist ==
    /\ revision = "root"
    /\ sample.phase # "called"
    /\ NextRun <= MaxRuns
    /\ \E answers \in Answers :
          sample' = SampleCalled("ensure_tables_exist", answers)
    /\ UNCHANGED <<configVars, dbVars, genVars, chatVars, managerVars, azure_store>>

\* ensure_tables_exist raises what its steps raise
EnsureTablesExist ==
    /\ sample.phase = "called"
    /\ sample.entry = "ensure_tables_exist"
    /\ LET done == ensure_tables_exist(azure_store, sample.answers)
       IN  /\ azure_store' = done.store
           /\ sample' = SampleReturn(IF done.raised THEN "raised"
                                     ELSE "returned", done.raised, FALSE)
    /\ UNCHANGED <<configVars, dbVars, genVars, chatVars, managerVars>>

InitSample ==
    /\ revision \in {"root", "project"}
    /\ openai_api_key = FALSE
    /\ openai_endpoint = FALSE
    /\ int_max_str_digits = INT_MAX_STR_DIGITS
    /\ use_sample_data = FALSE
    /\ connection = TRUE
    /\ clock = 0
    /\ exec = NoCall
    /\ sql_generator = NoGenerator
    /\ model_calls = 0
    /\ gen = NoCall
    /\ conversation_history = <<>>
    /\ azure_store \in Stores
    /\ sample = NoCall
    /\ NoStartup

NextSample ==
    \/ CallCreateDatabase
    \/ CreateDatabase
    \/ CallEnsureTablesExist
    \/ EnsureTablesExist

SpecSample == InitSample /\ [][NextSample]_vars

(***************************************************************************)
(* Start-up of the database manager: init_database_manager of both        *)
(* main.py, DatabaseManagerFactory and DatabaseManager.__init__ of both    *)
(* database_manager.py, SampleDataManager.__init__ and create_database.    *)
(* environ holds FORCE_SAMPLE_MODE, whether the four AZURE_SQL_* variables *)
(* and AZURE_SQL_CONNECTION_STRING are set, how the Azure SQL server       *)
(* answers while the Azure manager is tried (cloud_first) and from then on *)
(* (cloud_then), and whether the local SQLite database can be made.  The   *)
(* world w threaded through a start-up is the cloud store and the log of   *)
(* what was tried and shown.                                               *)
(***************************************************************************)
\* how the Azure SQL server answers a connection: the reasons of a failure
\* are the server not reached, a failed login and the firewall error 40615
CloudStates == {"up", "unreachable", "login failed", "40615"}

LocalStates == {"ok", "data fails", "sqlite fails"}

Environs ==
    [force_sample : BOOLEAN, sql_settings : BOOLEAN,
     sql_connection_string : BOOLEAN, cloud_first : CloudStates,
     cloud_then : CloudStates, local : LocalStates]

\* every statement of a run is carried out
Answered == [exists |-> TRUE, uncounted |-> {}, write |-> TRUE]

CloudAnswers(stage) ==
    IF environ[stage] = "up" THEN Answered ELSE Unreachable

Raised(message, w) == [raised |-> TRUE, message |-> message, w |-> w]

Built(value, w) == [raised |-> FALSE, value |-> value, w |-> w]

Logged(w, event) == [w EXCEPT !.log = Append(@, event)]

\* _create_local_database / _create_local_sample_data: SQLite in memory,
\* the three tables and their rows
_create_local_database(w) ==
    IF environ.local = "ok" THEN Built("sqlite", Logged(w, "embedded"))
    ELSE Raised("sqlite3.OperationalError", Logged(w, "embedded"))

DatabaseManagerOf(use_sample_data_, connection_) ==
    [class |-> "DatabaseManager", use_sample_data |-> use_sample_data_,
     connection |-> connection_]

\* the value of a call is bound once, as the one element of a set
TheOne(S) == CHOOSE x \in S : TRUE

\* create_sample_database(azure_config, force_local) of src/sample_data.py:
\* SampleDataManager.__init__ and create_database
create_sample_database_root(force_local, stage, w) ==
    LET use_azure == ~force_local /\ is_production_ready /\ has_database
    IN  IF use_azure
        THEN TheOne({
                 IF ~done.raised
                 THEN Built("sqlalchemy_engine",
                            [store |-> done.store,
                             log |-> Append(w.log, "cloud")])
                 ELSE _create_local_database(
                          [store |-> done.store,
                           log |-> Append(w.log, "cloud")]) :
                 done \in {_create_azure_database(w.store,
                                                  CloudAnswers(stage))}})
        ELSE _create_local_database(w)

\* DatabaseManager._initialize_sample_connection of src/database_manager.py
_initialize_sample_connection_root(stage, w) ==
    TheOne({ IF made.raised THEN made
             ELSE Built(DatabaseManagerOf(TRUE, made.value), made.w) :
             made \in {create_sample_database_root(FALSE, stage, w)} })

\* DatabaseManager._initialize_azure_connection of src/database_manager.py
_initialize_azure_connection_root(stage, w) ==
    IF ~has_database
    THEN Raised("돰쟴톰베쟴스 연결 뮸자열쟄 검좸욬 슘 없습니다", w)
    ELSE IF environ[stage] # "up"
    THEN Raised("Azure 연결 퇌스트 실펨", Logged(w, "cloud"))
    ELSE Built(DatabaseManagerOf(FALSE, "sqlalchemy_engine"),
               [store |-> ensure_tables_exist(
                              w.store, CloudAnswers(stage)).store,
                log |-> Append(w.log, "cloud")])

\* DatabaseManager.__init__ of src/database_manager.py
DatabaseManager_root(use_sample_data_, stage, w) ==
    IF use_sample_data_ THEN _initialize_sample_connection_root(stage, w)
    ELSE _initialize_azure_connection_root(stage, w)

\* DatabaseManager.test_connection of src/database_manager.py: every
\* exception is caught and answered False; with use_sample_data the
\* connection is asked for a cursor, which an Engine does not have
test_connection_root(manager, stage, w) ==
    IF manager.use_sample_data
    THEN [ok |-> manager.connection = "sqlite", w |-> w]
    ELSE [ok |-> environ[stage] = "up", w |-> Logged(w, "cloud")]

\* the try block of the Azure branch of create_manager: checked is the
\* world after azure_config.test_connection()
azure_first_root(checked) ==
    IF ~(has_database /\ environ.cloud_first = "up")
    THEN DatabaseManager_root(TRUE, "cloud_then", checked)
    ELSE TheOne({
             IF azure_manager.raised THEN azure_manager
             ELSE TheOne({
                      IF tested.ok THEN Built(azure_manager.value, tested.w)
                      ELSE DatabaseManager_root(TRUE, "cloud_then", tested.w) :
                      tested \in {test_connection_root(
                                      azure_manager.value, "cloud_first",
                                      azure_manager.w)} }) :
             azure_manager \in {DatabaseManager_root(FALSE, "cloud_first",
                                                     checked)} })

\* DatabaseManagerFactory.create_manager of src/database_manager.py
create_manager_root(force_sample, w) ==
    IF force_sample
    THEN TheOne({ IF made.raised
                  THEN Raised("샘햌 돰쟴톰베쟴스 생솱 실펨: " \o made.message,
                              made.w)
                  ELSE made :
                  made \in {DatabaseManager_root(TRUE, "cloud_then", w)} })
    ELSE TheOne({
             IF ~tried.raised THEN tried
             ELSE TheOne({
                      IF made.raised
                      THEN Raised("모든 돰쟴톰베쟴스 연결 실펨. Azure: "
                                  \o tried.message \o ", Sample: "
                                  \o made.message, made.w)
                      ELSE made :
                      made \in {DatabaseManager_root(TRUE, "cloud_then",
                                                     tried.w)} }) :
             tried \in {azure_first_root(
                            IF has_database THEN Logged(w, "cloud")
                            ELSE w)} })

\* init_database_manager returns None
NoManager == [class |-> "NoneType"]

\* the MinimalManager of init_database_manager's last except branch
MinimalManager ==
    [class |-> "MinimalManager", use_sample_data |-> TRUE,
     connection |-> "sqlite"]

minimal_mode(w) ==
    IF environ.local # "sqlite fails"
    THEN [value |-> MinimalManager, w |-> Logged(w, "minimal")]
    ELSE [value |-> NoManager, w |-> Logged(Logged(w, "minimal"), "st.error")]

\* the sample branch of init_database_manager of src/main.py: the manager
\* is built and tested, st.error when either fails
sample_manager_root(w) ==
    TheOne({
        IF sample_manager.raised
        THEN [value |-> NoManager, w |-> Logged(sample_manager.w, "st.error")]
        ELSE IF test_connection_root(sample_manager.value, "cloud_then",
                                     sample_manager.w).ok
        THEN [value |-> sample_manager.value, w |-> sample_manager.w]
        ELSE [value |-> NoManager, w |-> Logged(sample_manager.w, "st.error")] :
        sample_manager \in {DatabaseManager_root(TRUE, "cloud_then", w)} })

\* the except branch of the Azure attempt in src/main.py: the 40615 banner
\* returns None, every other failure goes on to the sample manager
sample_fallback_root(tried) ==
    IF Contains(tried.message, "40615")
    THEN [value |-> NoManager, w |-> Logged(tried.w, "st.error")]
    ELSE sample_manager_root(tried.w)

\* the try block of the Azure attempt in src/main.py
azure_attempt_root(w) ==
    IF ~has_database
    THEN Raised("Azure SQL Database 연결 뮸자열쟴 솤좕뒘지 엊쟌", w)
    ELSE TheOne({
             IF db_manager.raised THEN db_manager
             ELSE TheOne({
                      IF tested.ok THEN Built(db_manager.value, tested.w)
                      ELSE Raised("연결 퇌스트 실펨", tested.w) :
                      tested \in {test_connection_root(
                                      db_manager.value, "cloud_first",
                                      db_manager.w)} }) :
             db_manager \in {create_manager_root(FALSE, w)} })

\* the force-sample branch of init_database_manager: what its manager
\* raises reaches the outer except branch
forced_sample(built) ==
    IF built.raised THEN minimal_mode(Logged(built.w, "st.error"))
    ELSE [value |-> built.value, w |-> built.w]

\* init_database_manager of src/main.py
init_database_manager_root(w) ==
    IF environ.force_sample
    THEN TheOne({ forced_sample(built) :
                  built \in {DatabaseManager_root(TRUE, "cloud_then", w)} })
    ELSE TheOne({ IF ~tried.raised
                  THEN [value |-> tried.value, w |-> tried.w]
                  ELSE sample_fallback_root(tried) :
                  tried \in {azure_attempt_root(w)} })

\* DatabaseManager._initialize_sample_connection of
\* src/project/database_manager.py: SampleDataManager(force_local=True)
_initialize_sample_connection_project(use_sample_data_, w) ==
    TheOne({ IF made.raised THEN made
             ELSE Built(DatabaseManagerOf(use_sample_data_, made.value),
                        made.w) :
             made \in {_create_local_database(w)} })

\* the try block of DatabaseManager._initialize_azure_connection of
\* src/project/database_manager.py
azure_connection_project(stage, w) ==
    IF ~has_database
    THEN Raised("돰쟴톰베쟴스 연결 뮸자열쟄 검좸욬 슘 없습니다", w)
    ELSE IF environ[stage] # "up"
    THEN Raised("연결 퇌스트 실펨", Logged(w, "cloud"))
    ELSE Built(DatabaseManagerOf(FALSE, "pyodbc"), Logged(w, "cloud"))

\* _initialize_azure_connection builds the sample connection after a
\* failure and raises the failure again
_initialize_azure_connection_project(stage, w) ==
    TheOne({
        IF ~failed.raised THEN failed
        ELSE TheOne({ IF fallen.raised THEN fallen
                      ELSE Raised(failed.message, fallen.w) :
                      fallen \in {_initialize_sample_connection_project(
                                      FALSE, failed.w)} }) :
        failed \in {azure_connection_project(stage, w)} })

\* DatabaseManager.__init__ of src/project/database_manager.py
DatabaseManager_project(use_sample_data_, stage, w) ==
    LET use_azure == /\ ~use_sample_data_
                     /\ is_production_ready
                     /\ environ.sql_connection_string
    IN  IF use_azure THEN _initialize_azure_connection_project(stage, w)
        ELSE _initialize_sample_connection_project(use_sample_data_, w)

\* DatabaseManager.test_connection of src/project/database_manager.py
test_connection_project(manager, stage, w) ==
    IF manager.connection = "pyodbc"
    THEN [ok |-> environ[stage] = "up", w |-> Logged(w, "cloud")]
    ELSE [ok |-> TRUE, w |-> w]

\* DatabaseManagerFactory.create_manager of src/project/database_manager.py
create_manager_project(force_sample, w) ==
    DatabaseManager_project(force_sample \/ ~is_production_ready,
                            "cloud_first", w)

\* the sample branch of init_database_manager of src/project/main.py
sample_manager_project(w) ==
    TheOne({
        IF sample_manager.raised
        THEN [value |-> NoManager, w |-> Logged(sample_manager.w, "st.error")]
        ELSE IF test_connection_project(sample_manager.value, "cloud_then",
                                        sample_manager.w).ok
        THEN [value |-> sample_manager.value, w |-> sample_manager.w]
        ELSE [value |-> NoManager, w |-> Logged(sample_manager.w, "st.error")] :
        sample_manager \in {DatabaseManager_project(TRUE, "cloud_then", w)} })

\* the except branch of the Azure attempt in src/project/main.py: the
\* 40615 banner does not return
sample_fallback_project(tried) ==
    sample_manager_project(IF Contains(tried.message, "40615")
                           THEN Logged(tried.w, "st.error") ELSE tried.w)

\* the try block of the Azure attempt in src/project/main.py
azure_attempt_project(w) ==
    TheOne({
        IF built.raised THEN built
        ELSE TheOne({ IF tested.ok THEN Built(built.value, tested.w)
                      ELSE Raised("연결 퇌스트 실펨", tested.w) :
                      tested \in {test_connection_project(
                                      built.value, "cloud_first", built.w)} }) :
        built \in {create_manager_project(FALSE, w)} })

\* init_database_manager of src/project/main.py
init_database_manager_project(w) ==
    IF environ.force_sample
    THEN TheOne({ forced_sample(built) :
                  built \in {DatabaseManager_project(TRUE, "cloud_then", w)} })
    ELSE TheOne({ IF ~tried.raised
                  THEN [value |-> tried.value, w |-> tried.w]
                  ELSE sample_fallback_project(tried) :
                  tried \in {azure_attempt_project(w)} })

World == [store |-> azure_store, log |-> <<>>]

\* main() of main.py calls init_database_manager()
CallInitDatabaseManager ==
    /\ startup.phase = "idle"
    /\ startup' = [phase |-> "called", entry |-> "init_database_manager",
                   force_sample |-> environ.force_sample,
                   before |-> azure_store]
    /\ UNCHANGED <<configVars, dbVars, genVars, chatVars, sampleVars, environ>>

InitDatabaseManager ==
    /\ startup.phase = "called"
    /\ startup.entry = "init_database_manager"
    /\ LET done == IF revision = "root" THEN init_database_manager_root(World)
                   ELSE init_database_manager_project(World)
       IN  /\ azure_store' = done.w.store
           /\ startup' = [phase |-> "returned", entry |-> startup.entry,
                          force_sample |-> startup.force_sample,
                          before |-> startup.before,
                          db_manager |-> done.value, log |-> done.w.log]
    /\ UNCHANGED <<configVars, dbVars, genVars, chatVars, sample, environ>>

\* a script or test calls DatabaseManagerFactory.create_manager
CallCreateManager ==
    /\ startup.phase = "idle"
    /\ \E force_sample \in BOOLEAN :
          startup' = [phase |-> "called", entry |-> "create_manager",
                      force_sample |-> force_sample, before |-> azure_store]
    /\ UNCHANGED <<configVars, dbVars, genVars, chatVars, sampleVars, environ>>

CreateManager ==
    /\ startup.phase = "called"
    /\ startup.entry = "create_manager"
    /\ LET done == IF revision = "root"
                   THEN create_manager_root(startup.force_sample, World)
                   ELSE create_manager_project(startup.force_sample, World)
       IN  /\ azure_store' = done.w.store
           /\ startup' = [phase |-> IF done.raised THEN "raised"
                                    ELSE "returned",
                          entry |-> startup.entry,
                          force_sample |-> startup.force_sample,
                          before |-> startup.before,
                          db_manager |-> IF done.raised
                                         THEN [class |-> "Exception",
                                               message |-> done.message]
                                         ELSE done.value,
                          log |-> done.w.log]
    /\ UNCHANGED <<configVars, dbVars, genVars, chatVars, sample, environ>>

\* the stores the start-up may find: none of the tables, or the three
\* tables with rows of production
StartupStores ==
    {EmptyStore,
     [exists |-> [t \in Tables |-> TRUE], rows |-> [t \in Tables |-> 600],
      generated_keys |-> FALSE]}

InitStartup ==
    /\ revision \in {"root", "project"}
    /\ openai_api_key \in BOOLEAN
    /\ openai_endpoint \in BOOLEAN
    /\ int_max_str_digits = INT_MAX_STR_DIGITS
    /\ use_sample_data = FALSE
    /\ connection = TRUE
    /\ clock = 0
    /\ exec = NoCall
    /\ sql_generator = NoGenerator
    /\ model_calls = 0
    /\ gen = NoCall
    /\ conversation_history = <<>>
    /\ azure_store \in StartupStores
    /\ sample = NoCall
    /\ environ \in Environs
    /\ startup = NoCall

NextStartup ==
    \/ CallInitDatabaseManager
    \/ InitDatabaseManager
    \/ CallCreateManager
    \/ CreateManager

SpecStartup == InitStartup /\ [][NextStartup]_vars


(***************************************************************************)
(* execute_query with the time a query needs on the engine.  The clock    *)
(* counts seconds.  self.max_execution_time is 30 in both revisions; the  *)
(* only limits handed to a driver are timeout=30 in the pymssql URL of    *)
(* src/azure_config.py (the driver's query timeout) and the timeout of    *)
(* pyodbc.connect / sqlite3 in src/project (the login and lock timeouts). *)
(***************************************************************************)
max_execution_time == 30

MaxSeconds == 31

\* the seconds a query needs on the engine
Durations == {0, max_execution_time, max_execution_time + 1}

\* the limit under which the driver ends a running query, 0 for none:
\* the engine of src/database_manager.py is made from the URL ending in
\* timeout=30; the SQLite connection of both revisions and the pyodbc
\* connection of src/project have no query timeout
query_timeout ==
    IF revision = "root" /\ ~use_sample_data THEN 30 ELSE 0

\* pd.read_sql_query(sql_query, conn): the seconds it takes and whether
\* the driver ended the query
read_sql_query(duration) ==
    IF query_timeout # 0 /\ duration > query_timeout
    THEN [seconds |-> query_timeout, ended |-> TRUE]
    ELSE [seconds |-> duration, ended |-> FALSE]

\* execute_query, with the seconds the engine needs for the query
execute_query_timed(sql_query) ==
    LET unsafe == [safe |-> FALSE, engine_query |-> None,
                   engine_outcome |-> None,
                   message |-> "unsafe query", type |-> "ValueError"]
        absent == [safe |-> TRUE, engine_query |-> None,
                   engine_outcome |-> None,
                   message |-> "no connection", type |-> "Exception"]
        ended == [safe |-> TRUE, engine_query |-> sql_query,
                  engine_outcome |-> "OperationalError",
                  message |-> "OperationalError",
                  type |-> "OperationalError"]
    IN  IF ~_validate_query_safety(sql_query)
        THEN /\ exec' = FailedReturn(sql_query, 0, unsafe)
             /\ UNCHANGED clock
        ELSE IF ~connection
        THEN /\ exec' = FailedReturn(sql_query, 0, absent)
             /\ UNCHANGED clock
        ELSE \E duration \in Durations :
                LET run == read_sql_query(duration)
                IN  /\ clock + run.seconds <= MaxSeconds
                    /\ clock' = clock + run.seconds
                    /\ IF run.ended
                       THEN exec' = FailedReturn(sql_query, run.seconds, ended)
                       ELSE \/ \E frame \in EngineFrames :
                                 exec' = SuccessReturn(sql_query, run.seconds,
                                                       frame)
                            \/ \E error \in EngineErrors :
                                 exec' = FailedReturn(sql_query, run.seconds,
                                             [safe |-> TRUE,
                                              engine_query |-> sql_query,
                                              engine_outcome |-> error,
                                              message |-> error,
                                              type |-> error])

ExecuteQueryTimed ==
    /\ exec.phase = "called"
    /\ execute_query_timed(exec.sql_query)
    /\ UNCHANGED <<configVars, sampleVars, managerVars, genVars, chatVars,
                   use_sample_data, connection>>

NextTimeout == CallExecuteQuery \/ ExecuteQueryTimed

SpecTimeout == InitDb /\ [][NextTimeout]_vars

(***************************************************************************)
(* The manager that init_database_manager returned, in use: main() keeps  *)
(* it as db_manager and the dashboard and the chat box call its           *)
(* execute_query.  The variable use_sample_data is the attribute of the   *)
(* manager in use.                                                        *)
(***************************************************************************)
ManagerQueries == {"SELECT * FROM PY_DEPAZ_BAS", "DELETE FROM PY_DEPAZ_BAS"}

\* MinimalManager.execute_query of init_database_manager: one row with a
\* message and a metadata dict with the one key success
MinimalReturn(query) ==
    [phase |-> "returned", sql_query |-> query,
     df |-> [rows |-> 1, columns |-> 1],
     metadata |-> [success |-> TRUE]]

\* DatabaseManager.get_database_type
get_database_type ==
    IF revision = "root"
    THEN IF use_sample_data THEN "Azure SQL Database" ELSE "SQLite"
    ELSE IF self_use_azure THEN "Azure SQL Database" ELSE "SQLite"

\* DatabaseManager.is_azure_mode
is_azure_mode ==
    IF revision = "root" THEN use_sample_data ELSE self_use_azure

\* the connection get_connection yields belongs to the Azure SQL server
runs_on_cloud ==
    startup.db_manager.connection \in {"sqlalchemy_engine", "pyodbc"}

\* main() holds the manager; a page calls db_manager.execute_query
ManagerCall ==
    /\ startup.phase = "returned"
    /\ startup.entry = "init_database_manager"
    /\ startup.db_manager.class # "NoneType"
    /\ exec.phase = "idle"
    /\ use_sample_data' = startup.db_manager.use_sample_data
    /\ \E sql_query \in ManagerQueries :
          exec' = [phase |-> "called", sql_query |-> sql_query]
    /\ UNCHANGED <<configVars, sampleVars, managerVars, genVars, chatVars,
                   connection, clock>>

ManagerExecuteQuery ==
    /\ exec.phase = "called"
    /\ IF startup.db_manager.class = "MinimalManager"
       THEN /\ exec' = MinimalReturn(exec.sql_query)
            /\ UNCHANGED <<configVars, sampleVars, managerVars, genVars,
                           chatVars, use_sample_data, connection, clock>>
       ELSE execute_query(exec.sql_query)

NextManager ==
    \/ CallInitDatabaseManager
    \/ InitDatabaseManager
    \/ ManagerCall
    \/ ManagerExecuteQuery

SpecManager == InitStartup /\ [][NextManager]_vars

(***************************************************************************)
(* SampleDataManager.cleanup_sample_data on the Azure SQL Database.  The   *)
(* rows the store held before the first run of the generator are taken to  *)
(* be rows of production, which the WHERE clauses of the DELETE statements *)
(* do not match, unless generated_keys says they carry the generator's     *)
(* keys.                                                                   *)
(***************************************************************************)
\* the store before the generator first ran in this behaviour
first_store == IF sample.phase = "idle" THEN azure_store ELSE sample.first

\* the DELETE statements run in this order and stop at the first table the
\* store does not have
cleanup_order == <<PORT_OUT, PORT_IN, DEPOSIT>>

deleted_tables(store) ==
    {cleanup_order[i] : i \in {k \in 1..Len(cleanup_order) :
        \A j \in 1..k : store.exists[cleanup_order[j]]}}

\* src/sample_data.py: DELETE ... WHERE TRMN_NP_ADM_NO LIKE 'OUT%' and
\* WHERE SVC_CONT_ID LIKE '%00000000000000000%' match the 50 rows per table
\* the generator writes; each statement is committed on its own
cleanup_sample_data_root(store) ==
    IF ~store.generated_keys THEN store
    ELSE [store EXCEPT
             !.rows = [t \in Tables |->
                          IF t \in deleted_tables(store)
                          THEN Max(0, @[t] - ROWS_PER_TABLE) ELSE @[t]],
             !.generated_keys = FALSE]

\* src/project/sample_data.py: DELETE ... WHERE IS_SAMPLE_DATA = 1 matches
\* every row the generator inserted; conn.commit() is reached when all
\* three statements ran
cleanup_sample_data_project(store) ==
    IF deleted_tables(store) # Tables THEN store
    ELSE [store EXCEPT
             !.rows = [t \in Tables |->
                          IF t = PORT_OUT /\ first_store.generated_keys THEN 0
                          ELSE first_store.rows[t]],
             !.generated_keys = FALSE]

\* a script calls cleanup_sample_data(conn).  The server may refuse the
\* DELETE, and src/sample_data.py executes its statements on a connection
\* it neither commits nor rolls back, so whether they last depends on the
\* autocommit of the installed SQLAlchemy: committed is either outcome
CleanupSampleData ==
    /\ sample.phase # "called"
    /\ \E committed \in BOOLEAN :
          azure_store' =
              IF ~committed THEN azure_store
              ELSE IF revision = "project"
                   THEN cleanup_sample_data_project(azure_store)
                   ELSE cleanup_sample_data_root(azure_store)
    /\ UNCHANGED <<configVars, dbVars, genVars, chatVars, managerVars, sample>>

NextStore ==
    \/ CallCreateDatabase
    \/ CreateDatabase
    \/ CallEnsureTablesExist
    \/ EnsureTablesExist
    \/ CleanupSampleData

SpecStore == InitSample /\ [][NextStore]_vars

(***************************************************************************)
(* The port-out rows the sample generators write.  One step draws the      *)
(* random values of one pass of the loop and builds the row it inserts;    *)
(* the phone number and the amount, two more random draws that nothing     *)
(* else depends on, are left out of the row.  A date is written as the     *)
(* number of days after start_date.                                        *)
(***************************************************************************)
\* (end_date - start_date).days
window_days == 120

\* random.randint(0, (end_date - start_date).days), the ends of the range
RandomDays == {0, window_days}

\* random.randint(1, 15), the ends of the range
RandomDaysCancel == {1, 15}

\* random.choice(["1", "2", "3"])
StatusValues == {"1", "2", "3"}

operators == {"KT", "SKT", "LGU+", "KT MVNO", "SKT MVNO", "LGU+ MVNO"}

\* the format specification 0<width>d of a number that is not negative
zero_padded(n, width) == Repeat("0", width - Len(ToString(n))) \o ToString(n)

\* (start_date + timedelta(days)).strftime("%Y-%m-%d")
strftime(days) == "start_date+" \o zero_padded(days, 3)

\* a cancellation date for every status
cncl_wthd_date_always(status_val, random_days, random_days_cancel) ==
    IF status_val = "3" THEN strftime(random_days + random_days_cancel)
    ELSE strftime(random_days)

\* the if/elif/else of _generate_data, _generate_azure_port_out_data and
\* _generate_sqlite_port_out_data
cncl_wthd_date(status_val, random_days, random_days_cancel) ==
    IF status_val = "1" THEN None
    ELSE IF status_val = "2" THEN strftime(random_days)
    ELSE strftime(random_days + random_days_cancel)

\* src/sample_data.py, _generate_azure_sample_data: None unless "2" or "3"
cncl_wthd_date_azure(status_val, random_days, random_days_cancel) ==
    IF status_val = "2" THEN strftime(random_days)
    ELSE IF status_val = "3" THEN strftime(random_days + random_days_cancel)
    ELSE None

port_out_row(key, cncl_date, random_days, from_operator, to_operator, status_val, i) ==
    [NP_DIV_CD |-> "OUT",
     TRMN_NP_ADM_NO |-> key,
     NP_TRMN_DATE |-> strftime(random_days),
     CNCL_WTHD_DATE |-> cncl_date,
     BCHNG_COMM_CMPN_ID |-> from_operator,
     ACHNG_COMM_CMPN_ID |-> to_operator,
     SVC_CONT_ID |-> zero_padded(i + 1, 20),
     BILL_ACC_ID |-> zero_padded(i + 1, 11),
     NP_TRMN_DTL_STTUS_VAL |-> status_val]

Inserted(generator, pass, row) ==
    [phase |-> "inserted", generator |-> generator, pass |-> pass,
     row |-> row]

\* the loop of generator may make the pass numbered pass next
NextPass(generator, pass) ==
    \/ sample.phase = "idle"
    \/ /\ sample.phase = "inserted"
       /\ sample.generator = generator
       /\ sample.pass < pass

\* the first and the last pass of a loop of count passes
Passes(count) == {0, count - 1}

\* one pass of the port-out loop of _generate_azure_sample_data
\* (src/sample_data.py) or of _generate_azure_port_out_data with the
\* count of 1000 (src/project/sample_data.py)
GenerateAzurePortOutRow ==
    /\ \E random_days \in RandomDays, random_days_cancel \in RandomDaysCancel,
          status_val \in StatusValues :
          IF revision = "root"
          THEN \E i \in Passes(50), from_operator \in {"KT", "KT MVNO"} :
                  \E to_operator \in operators \ {from_operator} :
                     /\ NextPass("_generate_azure_sample_data", i)
                     /\ sample' = Inserted("_generate_azure_sample_data", i,
                        port_out_row("OUT" \o zero_padded(i + 1, 7),
                           cncl_wthd_date_azure(status_val, random_days,
                              IF status_val = "3" THEN random_days_cancel
                              ELSE 0),
                           random_days, from_operator, to_operator,
                           status_val, i))
          ELSE \E batch \in Passes(10), i \in Passes(100),
                  from_operator \in operators :
                  \E to_operator \in operators \ {from_operator} :
                     /\ NextPass("_generate_azure_port_out_data",
                                 batch * 100 + i)
                     /\ sample' = Inserted("_generate_azure_port_out_data",
                        batch * 100 + i,
                        port_out_row("AT" \o zero_padded(batch, 4)
                                          \o zero_padded(i, 4),
                           cncl_wthd_date(status_val, random_days,
                              IF status_val = "3" THEN random_days_cancel
                              ELSE 0),
                           random_days, from_operator, to_operator,
                           status_val, batch * 100 + i))
    /\ UNCHANGED <<configVars, dbVars, genVars, chatVars, managerVars, azure_store>>

\* the generator of the SQLite store
sqlite_generator ==
    IF revision = "root" THEN "_generate_data"
    ELSE "_generate_sqlite_port_out_data"

\* one pass of the port-out loop that fills the SQLite store: 50 passes of
\* _generate_data in src/sample_data.py, 1000 of
\* _generate_sqlite_port_out_data in src/project/sample_data.py
GenerateSqlitePortOutRow ==
    /\ \E random_days \in RandomDays, random_days_cancel \in RandomDaysCancel,
          status_val \in StatusValues,
          i \in Passes(IF revision = "root" THEN 50 ELSE 1000),
          from_operator \in
              IF revision = "root" THEN {"KT", "KT MVNO"} ELSE operators :
          \E to_operator \in operators \ {from_operator} :
             /\ NextPass(sqlite_generator, i)
             /\ sample' = Inserted(sqlite_generator, i,
                port_out_row((IF revision = "root" THEN "" ELSE "T")
                                \o zero_padded(i + 1, 7),
                   cncl_wthd_date(status_val, random_days,
                      IF status_val = "3" THEN random_days_cancel ELSE 0),
                   random_days, from_operator, to_operator, status_val, i))
    /\ UNCHANGED <<configVars, dbVars, genVars, chatVars, managerVars, azure_store>>

NextRows == GenerateAzurePortOutRow \/ GenerateSqlitePortOutRow

SpecRows == InitRule /\ [][NextRows]_vars
(***************************************************************************)
(* Claims about the database access layer, checked under SpecDb.           *)
(***************************************************************************)
Returned == exec.phase = "returned"

MutatingKeywords ==
    {"DROP", "DELETE", "INSERT", "UPDATE", "ALTER", "CREATE", "TRUNCATE",
     "EXEC", "EXECUTE", "MERGE", "BULK"}

TableNames == {"PY_NP_TRMN_RMNY_TXN", "PY_NP_SBSC_RMNY_TXN", "PY_DEPAZ_BAS"}

\* the four conditions of the shared rule set, stated on the string itself
BeginsWithSelectOrWith(s) ==
    StartsWith(Upper(Strip(s)), "SELECT") \/ StartsWith(Upper(Strip(s)), "WITH")

HasMutatingKeyword(s) == \E k \in MutatingKeywords : Contains(Upper(s), k)

NamesAllowedTable(s) == \E t \in TableNames : Contains(s, t)

\* C1: a string accepted by the database layer's safety validation begins
\* with SELECT or WITH (trimmed, case-insensitive), contains none of the
\* eleven mutating keywords in any case (so 'DROP TABLE' inside a quoted
\* literal rejects it), names one of the three tables and is at most 5000
\* characters long.
C1_AcceptedQueryIsSafe ==
    (Returned /\ exec.safe) =>
        /\ BeginsWithSelectOrWith(exec.sql_query)
        /\ ~HasMutatingKeyword(exec.sql_query)
        /\ ~Contains(exec.sql_query, "DROP TABLE")
        /\ NamesAllowedTable(exec.sql_query)
        /\ Len(exec.sql_query) <= 5000

\* a query of exactly 5000 characters with leading blanks was accepted
C1_Witness ==
    /\ Returned
    /\ exec.safe
    /\ Len(exec.sql_query) = 5000

\* C3: the validation runs before any access to the connection: a query
\* the validation rejects is never handed to the database engine.
C3_RejectedNeverReachesEngine ==
    Returned =>
        /\ ~_validate_query_safety(exec.sql_query) => exec.engine_query = None
        /\ exec.engine_query # None =>
              /\ exec.engine_query = exec.sql_query
              /\ BeginsWithSelectOrWith(exec.engine_query)
              /\ ~HasMutatingKeyword(exec.engine_query)

\* a rejected query returned without reaching a connection that was there
C3_Witness ==
    /\ Returned
    /\ connection
    /\ ~exec.safe
    /\ HasMutatingKeyword(exec.sql_query)
    /\ exec.engine_query = None

\* C7: execute_query never raises; a validator rejection, a missing
\* connection, a timeout and an engine error each return an empty table
\* with success = false and error_message set.
C7_FailuresAreReturned ==
    /\ exec.phase # "raised"
    /\ Returned =>
          LET failed == \/ ~exec.safe
                        \/ ~connection
                        \/ exec.engine_outcome \in EngineErrors
          IN  failed =>
                 /\ exec.df = EmptyFrame
                 /\ exec.metadata.success = FALSE
                 /\ exec.metadata.error_message # None

\* the driver timed out on a safe query and the call still returned
C7_Witness ==
    /\ Returned
    /\ exec.safe
    /\ exec.engine_outcome = "TimeoutError"
    /\ exec.metadata.success = FALSE

\* C8: the metadata of every call has execution_time >= 0 and row_count
\* equal to the rows of the returned table, and success = false implies an
\* empty table.
C8_MetadataMatchesTable ==
    Returned =>
        /\ exec.metadata.execution_time >= 0
        /\ exec.metadata.row_count = exec.df.rows
        /\ exec.metadata.success = FALSE => exec.df.rows = 0

\* the engine returned more rows than the cap and the frame was cut
C8_Witness ==
    /\ Returned
    /\ exec.metadata.success
    /\ exec.engine_rows > exec.df.rows
    /\ exec.metadata.row_count = max_result_rows

(***************************************************************************)
(* Claims about the SQL generators, checked under SpecGen.                 *)
(***************************************************************************)
GenReturned == gen.phase = "returned"

IsText(v) == v # None /\ v # ValueError

CredentialsPresent == openai_api_key /\ openai_endpoint

\* the shared rule set of the validator, stated on the string itself
SafeUnderSharedRules(s) ==
    /\ BeginsWithSelectOrWith(s)
    /\ ~HasMutatingKeyword(s)
    /\ NamesAllowedTable(s)
    /\ Len(s) <= 5000

\* the strings the validator of a generator accepted during the call
AcceptedByGeneratorValidator ==
    (IF gen.ai_valid THEN {gen.ai_sql} ELSE {})
    \cup (IF /\ revision = "root"
             /\ IsText(gen.rule_sql)
             /\ _validate_sql_root(gen.rule_sql)
          THEN {gen.rule_sql} ELSE {})

\* C2: the validator a generator applies to the model's SQL and to the
\* rule-based SQL rejects every string that is unsafe under the shared rule
\* set: one that does not begin with SELECT or WITH after trimming, holds
\* one of the eleven mutating keywords in any case, names none of the three
\* tables, or is longer than 5000 characters.
C2_GeneratorValidatorRejectsUnsafe ==
    (GenReturned /\ gen.entry \in {"generate_sql", "generate_sql_with_openai"})
        => \A s \in AcceptedByGeneratorValidator : SafeUnderSharedRules(s)

\* what a call returns as the model's output is the SQL of the model's
\* answer, and the validator accepted it
ModelOutputWasValidated ==
    gen.used_ai => (gen.ai_valid /\ gen.sql = gen.ai_sql)

\* C4: a generator returns the model's output only if that output passed the
\* validator; with credentials present and the model call failed, answered
\* without SQL or answered SQL the validator rejects, generate_sql and
\* generate_sql_query return the rule-based SQL of the same input with
\* used_ai = false, and nothing is raised.
C4_ModelOutputOnlyIfValidated ==
    /\ gen.phase # "raised"
    /\ GenReturned =>
          /\ ModelOutputWasValidated
          /\ ( /\ gen.entry \in {"generate_sql", "generate_sql_query"}
               /\ gen.calls > 0
               /\ ~gen.ai_valid
               /\ IsText(gen.rule_sql) )
             => (gen.sql = gen.rule_sql /\ ~gen.used_ai)

MaskOpeners == {"LEFT(", "RIGHT(", "SUBSTR(", "SUBSTRING("}

FilterOpeners == {"WHERE ", "AND "}

Preceded(s, i, opener) ==
    /\ i > Len(opener)
    /\ SubSeq(s, i - Len(opener), i - 1) = opener

\* the positions where s references the phone column outside a masking
\* function and outside a filter condition
BarePhoneReferences(s) ==
    LET u == Upper(s)
    IN  { i \in 1..(Len(u) - 5) :
            /\ SubSeq(u, i, i + 5) = "TEL_NO"
            /\ \A opener \in MaskOpeners \cup FilterOpeners :
                  ~Preceded(u, i, opener) }

\* C5: no SQL text a generator returns selects the phone-number column
\* unmasked: wherever the text surfaces TEL_NO it is inside the masking
\* expression (first 3 digits, '****', last 4 digits), never a bare column
\* reference.
C5_ReturnedSqlMasksPhone ==
    (GenReturned /\ IsText(gen.sql)) => BarePhoneReferences(gen.sql) = {}

\* the step of the call that failed, if any
AiStepFailed == gen.calls > 0 /\ ~gen.ai_valid

RuleStepFailed == gen.rule_sql = ValueError

\* C6: generate_sql returns a (sql_text, used_ai) pair for every input and
\* never raises; when the model call, the validation of its answer or the
\* rule-based generation failed, the pair is a fallback query (the
\* rule-based SQL or the default query) with used_ai = false.
C6_GenerateSqlNeverRaises ==
    /\ gen.phase = "raised" => gen.entry # "generate_sql"
    /\ (GenReturned /\ gen.entry = "generate_sql") =>
          /\ IsText(gen.sql)
          /\ gen.sql # ""
          /\ gen.used_ai \in BOOLEAN
          /\ AiStepFailed =>
                (~gen.used_ai /\ gen.sql \in {gen.rule_sql, _get_default_query})
          /\ RuleStepFailed =>
                (~gen.used_ai /\ gen.sql = _get_default_query)

\* the rule-based generation raised on a number of months longer than the
\* interpreter's digit limit, after a failed model call, and generate_sql
\* returned the default query
C6_Witness ==
    /\ GenReturned
    /\ gen.entry = "generate_sql"
    /\ gen.outcome.kind = "raises"
    /\ gen.rule_sql = ValueError
    /\ gen.sql = _get_default_query
    /\ ~gen.used_ai

\* the six intents in their priority order, by the keyword lists of the
\* _is_*_query methods
Intent(user_input) ==
    LET user_input_lower == Lower(user_input)
    IN  IF _is_monthly_trend_query(user_input_lower) THEN "monthly"
        ELSE IF _is_phone_search_query(user_input) THEN "phone"
        ELSE IF _is_operator_comparison_query(user_input_lower) THEN "operator"
        ELSE IF _is_deposit_query(user_input_lower) THEN "deposit"
        ELSE IF _is_anomaly_detection_query(user_input_lower) THEN "anomaly"
        ELSE "default"

\* the SQL texts of an intent's template for the filters of the input
TemplatesOfRoot(intent, user_input) ==
    LET date_filter == _extract_date_filter_root(Lower(user_input))
        operator_filter == _extract_operator_filter_root(user_input)
    IN  CASE intent = "monthly" ->
                 {rule_monthly_port_in_sql(date_filter),
                  rule_monthly_port_out_sql(date_filter)}
          [] intent = "phone" ->
                 {rule_phone_sql(phone_digits(phone_match(user_input)))}
          [] intent = "operator" -> {rule_operator_sql(date_filter)}
          [] intent = "deposit" ->
                 {_generate_deposit_query_root(operator_filter, date_filter)}
          [] intent = "anomaly" ->
                 {_generate_anomaly_detection_query_root(date_filter)}
          [] OTHER -> {_get_default_query_root}

TemplatesOfProject(intent, user_input) ==
    LET date_filter == _extract_date_filter_project(Lower(user_input))
        operator_filter == _extract_operator_filter_project(Lower(user_input))
    IN  CASE intent = "monthly" ->
                 {monthly_port_in_project(operator_filter, date_filter),
                  monthly_port_out_project(operator_filter, date_filter),
                  monthly_combined_project(operator_filter, date_filter)}
          [] intent = "phone" ->
                 {phone_history_project(phone_digits(phone_match(user_input)))}
          [] intent = "operator" ->
                 {_generate_operator_comparison_query_project(
                      operator_filter, date_filter)}
          [] intent = "deposit" ->
                 {_generate_deposit_query_project(operator_filter, date_filter)}
          [] intent = "anomaly" ->
                 {_generate_anomaly_detection_query_project(date_filter)}
          [] OTHER -> {_generate_summary_query_project(date_filter)}

TemplatesOf(intent, user_input) ==
    IF revision = "root" THEN TemplatesOfRoot(intent, user_input)
    ELSE TemplatesOfProject(intent, user_input)

\* C9: the rule-based path of SQLGenerator puts every input into exactly
\* one of the six intents by keyword containment, in the priority order
\* monthly trend, phone lookup, operator comparison, deposit summary,
\* anomaly detection, default summary, and the SQL it produces is the
\* template of the highest-priority intent the input matches.
C9_HighestPriorityIntentWins ==
    (GenReturned /\ gen.entry = "generate_sql" /\ IsText(gen.rule_sql))
        => gen.rule_sql \in TemplatesOf(Intent(gen.user_input), gen.user_input)

\* C10: with a credential absent no request is sent to the model endpoint,
\* neither when a generator is constructed nor when a query is generated,
\* and generate_sql returns used_ai = false for every input.
C10_NoCredentialsNoModel ==
    ~CredentialsPresent =>
        /\ model_calls = 0
        /\ sql_generator.openai_client = None
        /\ GenReturned => (gen.calls = 0 /\ ~gen.used_ai)

\* a constructed generator answered a question with the key set and the
\* endpoint missing
C10_Witness ==
    /\ openai_api_key
    /\ ~openai_endpoint
    /\ sql_generator.class = "SQLGenerator"
    /\ GenReturned
    /\ gen.entry = "generate_sql"
    /\ gen.user_input # ""
    /\ ~gen.used_ai
    /\ model_calls = 0

(***************************************************************************)
(* Claims about the chat box, checked under SpecChat.                      *)
(***************************************************************************)
\* the turn has produced its SQL and that SQL is the rule-based one
ChatRuleSqlReturned ==
    /\ gen.phase \in {"executing", "returned"}
    /\ gen.entry = "display_chatbot"
    /\ ~gen.used_ai
    /\ IsText(gen.rule_sql)
    /\ gen.sql = gen.rule_sql

\* C11: rule-based SQL that the validator rejects is not returned to the
\* caller; the rejection is a negative result and never an exception, and
\* the turn goes on with the default query or reports that no query could
\* be generated.
C11_RejectedRuleSqlNotReturned ==
    /\ gen.phase # "raised"
    /\ exec.phase # "raised"
    /\ ChatRuleSqlReturned => _validate_query_safety(gen.sql)

(***************************************************************************)
(* Claims about the rule-based path, checked under SpecRule.               *)
(***************************************************************************)
RuleReturned == gen.phase = "returned"

\* the separators the phone-number form allows between its groups
PhoneForms == {"", "-", " "}

\* the numbers of the form 010-dddd-dddd that s contains, written without
\* their separators
PhoneNumbersIn(s) ==
    { "010" \o SubSeq(s, i + 3 + Len(x), i + 6 + Len(x))
            \o SubSeq(s, i + 7 + Len(x) + Len(y), i + 10 + Len(x) + Len(y)) :
        <<i, x, y>> \in
            { t \in (1..Len(s)) \X PhoneForms \X PhoneForms :
                LET a == t[1] + 3 + Len(t[2])
                    b == a + 4 + Len(t[3])
                IN  /\ b + 3 <= Len(s)
                    /\ SubSeq(s, t[1], a - 1) = "010" \o t[2]
                    /\ AllDigits(s, a, a + 3)
                    /\ SubSeq(s, a + 4, b - 1) = t[3]
                    /\ AllDigits(s, b, b + 3) } }

\* the branch before the phone lookup takes the input: the monthly trend
\* of each generator
TakenAsMonthlyTrend ==
    LET user_input_lower == Lower(gen.user_input)
        has(keyword) == Contains(user_input_lower, keyword)
    IN  IF gen.entry = "_generate_rule_based_sql" /\ revision = "project"
        THEN _is_monthly_trend_query(user_input_lower)
        ELSE (has("월별") \/ has("추쟴")) /\ (has("포트쟸") \/ has("포트엄웃"))

HandledAsPhoneLookup ==
    /\ PhoneNumbersIn(gen.user_input) # {}
    /\ ~TakenAsMonthlyTrend

MaskedPhoneExpressions ==
    {"LEFT(TEL_NO, 3) + '****' + RIGHT(TEL_NO, 4)",
     "SUBSTR(TEL_NO, 1, 3) || '****' || SUBSTR(TEL_NO, -4)"}

\* every comparison of TEL_NO in sql is with the literal 'number'
FiltersOnNumber(sql, number) ==
    LET filters == Occurrences(sql, "TEL_NO = '")
    IN  /\ filters # {}
        /\ \A i \in filters :
              /\ i + 10 + Len(number) <= Len(sql)
              /\ SubSeq(sql, i + 10, i + 10 + Len(number)) = number \o "'"

\* C12: for every input that contains a phone number of the form
\* 010-dddd-dddd (hyphen, space or no separator) and is handled as a phone
\* lookup, the rule-based SQL contains the masked-phone expression and
\* filters on the 11-digit string with the separators removed.
C12_PhoneLookupMasksAndFilters ==
    (RuleReturned /\ HandledAsPhoneLookup) =>
        /\ \E mask \in MaskedPhoneExpressions : Contains(gen.rule_sql, mask)
        /\ \E number \in PhoneNumbersIn(gen.user_input) :
              /\ Len(number) = 11
              /\ AllDigits(number, 1, 11)
              /\ FiltersOnNumber(gen.rule_sql, number)

\* a lookup of a number written with blanks returned SQL that filters on
\* 01012345678
C12_Witness ==
    /\ RuleReturned
    /\ gen.user_input = "010 1234 5678"
    /\ HandledAsPhoneLookup
    /\ FiltersOnNumber(gen.rule_sql, "01012345678")

\* the relative-date expressions of the two dialects for n months before now
MonthsExpressions(n) ==
    {"DATEADD(month, -" \o n \o ", GETDATE())",
     "date('now', '-" \o n \o " months')",
     "date('now', '-" \o n \o " month')"}

\* the numbers N of the phrases "최근 N개월" in s, as int() writes them
RecentMonthsIn(s) ==
    { int(SubSeq(s, i + 3, j)) :
        <<i, j>> \in { t \in Occurrences(s, "췜근 ") \X (1..Len(s)) :
                         /\ t[2] >= t[1] + 3
                         /\ AllDigits(s, t[1] + 3, t[2])
                         /\ t[2] + 2 <= Len(s)
                         /\ SubSeq(s, t[2] + 1, t[2] + 2) = "겜월" } }

\* s holds one of the date phrases a generator recognises
HasDatePhrase(s) ==
    \/ \E i \in 1..Len(date_patterns) : Contains(s, date_patterns[i][1])
    \/ Contains(s, "췜근 헜달")
    \/ month_match(s) # None

\* sql restricts its rows by a date relative to now
HasLookBack(sql) == Contains(sql, "DATEADD(") \/ Contains(sql, "date('now'")

\* C13: the look-back period in rule-based SQL follows the input: an input
\* containing "최근 N개월" yields a relative-date expression N months before
\* now, and an input with no recognised date phrase yields a look-back of
\* 3 months.
C13_LookBackFollowsInput ==
    (RuleReturned /\ HasLookBack(gen.rule_sql)) =>
        /\ \A n \in RecentMonthsIn(gen.user_input) :
              \E e \in MonthsExpressions(n) : Contains(gen.rule_sql, e)
        /\ ~HasDatePhrase(gen.user_input) =>
              \E e \in MonthsExpressions("3") : Contains(gen.rule_sql, e)

\* the canonical names of the carriers s names through an alias of the
\* mapping
NamedCarriers(s) ==
    { operator_mapping[i][2] :
        i \in { k \in 1..Len(operator_mapping) :
                  Contains(s, operator_mapping[k][1]) } }

CanonicalCarriers ==
    { operator_mapping[i][2] : i \in 1..Len(operator_mapping) }

\* the AND clauses that restrict rows to the carrier value
CarrierFilters(value) ==
    {"AND (BCHNG_COMM_CMPN_ID = '" \o value \o "' OR ACHNG_COMM_CMPN_ID = '"
         \o value \o "')",
     "AND BCHNG_COMM_CMPN_ID = '" \o value \o "'",
     "AND ACHNG_COMM_CMPN_ID = '" \o value \o "'"}

FiltersOnCarrier(sql, value) ==
    \E clause \in CarrierFilters(value) : Contains(sql, clause)

\* C14: when the input names a carrier through an alias of the mapping, the
\* rule-based SQL contains an AND filter restricting rows to the canonical
\* name of a carrier the input names, and no filter on any other carrier.
C14_CarrierAliasFilters ==
    (RuleReturned /\ NamedCarriers(gen.user_input) # {}) =>
        \E value \in NamedCarriers(gen.user_input) :
            /\ FiltersOnCarrier(gen.rule_sql, value)
            /\ \A other \in CanonicalCarriers \ {value} :
                  ~FiltersOnCarrier(gen.rule_sql, other)

\* what a text of the cloud dialect and of the embedded dialect may not hold
EmbeddedOnlySyntax == {"date('now'", "strftime(", "LIMIT "}

CloudOnlySyntax == {"DATEADD(", "GETDATE(", "FORMAT(", "TOP "}

\* C15: the SQL text generate_rule_based_sql_query produces follows the
\* requested dialect: with the embedded dialect selected (is_azure false) it
\* holds none of DATEADD, GETDATE, FORMAT or TOP; with the cloud dialect
\* selected it holds none of date('now'), strftime or LIMIT.
C15_SqlFollowsDialect ==
    (RuleReturned /\ gen.entry = "generate_rule_based_sql_query") =>
        \A syntax \in (IF gen.is_azure THEN EmbeddedOnlySyntax
                       ELSE CloudOnlySyntax) :
            ~Contains(gen.rule_sql, syntax)

(***************************************************************************)
(* Claims about the sample generator on the Azure SQL Database, checked    *)
(* under SpecSample.                                                       *)
(***************************************************************************)
SampleDone == sample.phase \in {"returned", "raised"}

\* the minimum of a table: src/sample_data.py has the one number 50,
\* src/project/sample_data.py the min_requirements
Threshold(t) ==
    IF revision = "root" THEN DATA_COUNT_MIN ELSE min_requirements[t]

AboveThresholds(store) ==
    \A t \in Tables : store.exists[t] /\ store.rows[t] >= Threshold(t)

\* C16: running the sample generator against a cloud store whose row counts
\* are already above the thresholds leaves the row count of every table
\* unchanged, for two or any larger number of consecutive invocations.
C16_AboveThresholdRowsUnchanged ==
    (sample.phase # "idle" /\ AboveThresholds(sample.first))
        => azure_store.rows = sample.first.rows

\* the tables the last run inserted rows into
InsertedInto == {t \in Tables : azure_store.rows[t] > sample.before.rows[t]}

\* C17: on the cloud store the generator creates the three tables when they
\* are missing, compares each table's existing row count with that table's
\* fixed minimum threshold, and inserts synthetic rows only when the count
\* is below the threshold.
C17_InsertsOnlyBelowThreshold ==
    SampleDone =>
        /\ ~sample.raised => \A t \in Tables : azure_store.exists[t]
        /\ \A t \in InsertedInto : sample.before.rows[t] < Threshold(t)

(***************************************************************************)
(* Claims about the start-up of the database manager, checked under        *)
(* SpecStartup.                                                            *)
(***************************************************************************)
StartupDone == startup.phase \in {"returned", "raised"}

InitReturned ==
    startup.phase = "returned" /\ startup.entry = "init_database_manager"

\* the connection to the Azure SQL Database was tried and failed
CloudAttemptFailed ==
    ~environ.force_sample /\ has_database /\ environ.cloud_first # "up"

\* every st.error of the start-up comes after a try of the local SQLite
EmbeddedTriedBeforeBanner ==
    \A i \in DOMAIN startup.log :
        startup.log[i] = "st.error"
            => \E j \in 1..(i - 1) : startup.log[j] = "embedded"

Tried(event) == \E i \in DOMAIN startup.log : startup.log[i] = event

\* C18: when the cloud database connection attempt fails for any reason
\* (unreachable server, authentication failure, firewall error 40615), the
\* embedded fallback store is tried once before any error banner is shown,
\* and initialisation reports failure only if that embedded attempt fails
\* too.
C18_EmbeddedTriedBeforeFailure ==
    (InitReturned /\ CloudAttemptFailed) =>
        /\ EmbeddedTriedBeforeBanner
        /\ startup.db_manager = NoManager =>
              (Tried("embedded") /\ environ.local # "ok")

\* C19: with the force-sample flag set, the database manager is bound to
\* the embedded sample store and the cloud database is never contacted,
\* whatever cloud settings are present in the environment.
C19_ForceSampleStaysLocal ==
    (StartupDone /\ startup.force_sample) =>
        /\ ~Tried("cloud")
        /\ azure_store = startup.before
        /\ (startup.phase = "returned" /\ environ.local = "ok") =>
              /\ startup.db_manager.class = "DatabaseManager"
              /\ startup.db_manager.use_sample_data
              /\ startup.db_manager.connection = "sqlite"

\* the four AZURE_SQL_* variables (and AZURE_SQL_CONNECTION_STRING in
\* src/project) are not all set
SettingsMissing ==
    ~has_database \/ (revision = "project" /\ ~environ.sql_connection_string)

\* the settings are there and no connection made with them succeeds
SettingsInvalid ==
    /\ has_database
    /\ environ.cloud_first # "up"
    /\ environ.cloud_then # "up"

\* C20: with database settings missing or invalid, building the database
\* manager does not raise: the database path degrades to a manager bound
\* to the embedded store.
C20_BadSettingsDegrade ==
    ( /\ StartupDone
      /\ startup.entry = "create_manager"
      /\ SettingsMissing \/ SettingsInvalid
      /\ environ.local = "ok" ) =>
        /\ startup.phase = "returned"
        /\ startup.db_manager.connection = "sqlite"

(***************************************************************************)
(* Further claims about execute_query, checked under SpecDb.               *)
(***************************************************************************)
\* C21: the table returned by execute_query never has more rows than the
\* configured maximum (10000 in src/, 2000 in src/project/), and the
\* metadata flags truncation whenever the engine returned more rows than
\* that maximum.
C21_RowsCappedAndFlagged ==
    Returned =>
        /\ exec.df.rows <= max_result_rows
        /\ exec.engine_rows > max_result_rows => exec.metadata.truncated

\* the engine returned one row more than the maximum: the table holds the
\* maximum and the flag is set
C21_Witness ==
    /\ Returned
    /\ exec.engine_rows = max_result_rows + 1
    /\ exec.df.rows = max_result_rows
    /\ exec.metadata.truncated

\* C22: execute_query runs each query under a fixed wall-clock timeout: a
\* query whose execution exceeds the limit (max_execution_time, 30 seconds)
\* is ended and reported as a failure (empty table, success = false), so
\* every call returns and no call that took longer than the limit reports
\* success.
C22_QueryEndedAtTimeout ==
    /\ exec.phase # "raised"
    /\ (Returned /\ exec.metadata.execution_time > max_execution_time) =>
          /\ exec.df = EmptyFrame
          /\ ~exec.metadata.success

(***************************************************************************)
(* Claims about the manager in use, checked under SpecManager.             *)
(***************************************************************************)
RequiredMetadata ==
    {"execution_time", "row_count", "column_count", "success",
     "error_message"}

\* C23: every object the dashboard can use as its database manager (a
\* DatabaseManager or the MinimalManager of init_database_manager) returns
\* from execute_query a table plus a metadata record that holds at least
\* execution_time, row_count, column_count, success and error_message, on
\* success and on failure alike.
C23_MetadataHasRequiredKeys ==
    Returned => RequiredMetadata \subseteq DOMAIN exec.metadata

\* C30: a manager's reports of its own mode agree with each other and with
\* the backend in use: is_azure_mode() is true and get_database_type()
\* names the cloud database exactly when queries run against the cloud
\* store, which is also exactly when the metadata of execute_query names
\* the cloud dialect in database_type.
C30_ModeReportsAgree ==
    (Returned /\ startup.db_manager.class = "DatabaseManager") =>
        /\ is_azure_mode = runs_on_cloud
        /\ (get_database_type = "Azure SQL Database") = runs_on_cloud
        /\ (exec.metadata.database_type = "Azure SQL") = runs_on_cloud

(***************************************************************************)
(* Claims about the rows of the cloud store, checked under SpecStore.      *)
(***************************************************************************)
\* C24: the system never updates or deletes rows of the three tables: over
\* any sequence of generator runs and sample-data-manager operations no
\* table of the store ever holds fewer rows than before the step.
C24_RowsNeverRemoved ==
    [][\A t \in Tables : azure_store'.rows[t] >= azure_store.rows[t]]_vars

(***************************************************************************)
(* Further claims about the rule-based path, checked under SpecRule.       *)
(***************************************************************************)
\* the monthly-trend keywords the called generator tests: the list of
\* SQLGenerator._is_monthly_trend_query in src/project/sql_generator.py,
\* 월별 and 추이 in the three others
MonthlyTrendKeywords ==
    IF gen.entry = "_generate_rule_based_sql" /\ revision = "project"
    THEN monthly_keywords
    ELSE <<"월별", "추쟴">>

AsksMonthlyPortIn ==
    /\ AnyKeyword(MonthlyTrendKeywords, Lower(gen.user_input))
    /\ Contains(Lower(gen.user_input), "포트쟸")

\* the month of the port-in date in either dialect
MonthOfPortIn ==
    {"FORMAT(TRT_DATE, 'yyyy-MM')", "strftime('%Y-%m', TRT_DATE)"}

GroupsByMonthAndCarrier(sql) ==
    \E month \in MonthOfPortIn :
        /\ Contains(sql, "GROUP BY " \o month \o ", BCHNG_COMM_CMPN_ID")
        /\ Contains(sql, month \o " as ")
        /\ Contains(sql, "BCHNG_COMM_CMPN_ID as ")

RuleSqlOf(entry, user_input, is_azure) ==
    IF entry = "_generate_rule_based_sql"
    THEN _generate_rule_based_sql(user_input)
    ELSE IF revision = "root"
    THEN generate_rule_based_sql_query(user_input, is_azure)
    ELSE generate_rule_based_sql_query_project(user_input, is_azure)

\* the branch the generator entry takes for user_input: the tests of
\* _generate_rule_based_sql and generate_rule_based_sql_query in their order
RuleIntent(entry, user_input) ==
    LET user_input_lower == Lower(user_input)
        has(keyword) == Contains(user_input_lower, keyword)
        monthly == has("월별") \/ has("추쟴")
        phone == phone_match(user_input) # None
    IN  IF entry = "_generate_rule_based_sql" /\ revision = "project"
        THEN IF _is_monthly_trend_query(user_input_lower)
             THEN IF has("포트쟸") \/ has("검입") THEN "monthly port-in"
                  ELSE IF has("포트엄웃") \/ has("헴지")
                  THEN "monthly port-out"
                  ELSE "monthly"
             ELSE IF phone THEN "phone"
             ELSE IF _is_operator_comparison_query(user_input_lower)
             THEN "operator"
             ELSE IF _is_deposit_query(user_input_lower) THEN "deposit"
             ELSE IF _is_anomaly_detection_query(user_input_lower)
             THEN "anomaly"
             ELSE "default"
        ELSE IF monthly /\ has("포트쟸") THEN "monthly port-in"
        ELSE IF monthly /\ has("포트엄웃") THEN "monthly port-out"
        ELSE IF phone THEN "phone"
        ELSE IF entry = "_generate_rule_based_sql"
        THEN IF AnyKeyword(rule_operator_keywords, user_input_lower)
             THEN "operator" ELSE "default"
        ELSE IF AnyKeyword(IF revision = "root" THEN main_operator_keywords
                           ELSE project_main_operator_keywords,
                           user_input_lower)
        THEN "operator"
        ELSE IF has("욈컘꺈") THEN "deposit"
        ELSE "default"

\* the date range the generator entry extracts; main.py extracts none
RuleDateRange(entry, user_input) ==
    IF entry # "_generate_rule_based_sql" THEN ""
    ELSE IF revision = "root"
    THEN _extract_date_filter_root(Lower(user_input))
    ELSE _extract_date_filter_project(Lower(user_input))

\* the carrier the generator entry matches; _generate_rule_based_sql of
\* src/sql_generator.py matches none
RuleCarrier(entry, user_input) ==
    LET has(keyword) == Contains(Lower(user_input), keyword)
    IN  IF entry = "_generate_rule_based_sql"
        THEN IF revision = "root" THEN ""
             ELSE _extract_operator_filter_project(Lower(user_input))
        ELSE IF has("skt") \/ has("sk") THEN "SKT"
        ELSE IF has("kt") THEN "KT"
        ELSE IF has(IF revision = "root" THEN "lg" ELSE "lgu") THEN "LGU+"
        ELSE ""

\* the digits of the matched phone number
RulePhone(user_input) ==
    LET group == phone_match(user_input)
    IN  IF group = None THEN None ELSE phone_digits(group)

\* what the claim lets the SQL depend on
RuleView(entry, user_input) ==
    <<RuleIntent(entry, user_input), RuleDateRange(entry, user_input),
      RuleCarrier(entry, user_input), RulePhone(user_input)>>

\* characters that no template holds
Markers == {"~", "´"}

\* C28: rule-based SQL depends on the user input only through the chosen
\* intent, the extracted date range, the matched carrier alias and the
\* digits of the matched phone number; the only characters taken from the
\* input that appear in the SQL text are decimal digits, so no input can
\* add a quote or keyword to the query.
C28_SqlDependsOnViewOnly ==
    RuleReturned =>
        /\ \A other \in RuleInputs :
              RuleView(gen.entry, other) = RuleView(gen.entry, gen.user_input)
                  => RuleSqlOf(gen.entry, other, gen.is_azure) = gen.rule_sql
        /\ LET phone == RulePhone(gen.user_input)
           IN  phone # None => AllDigits(phone, 1, Len(phone))
        /\ \A mark \in Markers : ~Contains(gen.rule_sql, mark)

C28_Witness ==
    /\ RuleReturned
    /\ gen.user_input = "010-1234-5678' OR '1'='1"
    /\ RuleView(gen.entry, gen.user_input)
           = RuleView(gen.entry, "010-1234-5678 번횸 죰회")
    /\ Contains(gen.rule_sql, "'01012345678'")
    /\ ~Contains(gen.rule_sql, "'1'='1")

(***************************************************************************)
(* Claims about the generated rows, checked under SpecRows.                *)
(***************************************************************************)
RowInserted == sample.phase = "inserted"

\* NP_TRMN_DTL_STTUS_VAL: "1" completed, "2" cancelled, "3" withdrawn, the
\* order of OK, CN and WD of the port-in rows
CancelledOrWithdrawn == {"2", "3"}

\* C26: every synthetic port-out row carries a cancellation date if and
\* only if its status code is one of the cancelled or withdrawn values; a
\* row with the completed status has no cancellation date.
C26_CancellationDateIffCancelled ==
    RowInserted =>
        /\ (sample.row.CNCL_WTHD_DATE # None) <=>
              (sample.row.NP_TRMN_DTL_STTUS_VAL \in CancelledOrWithdrawn)
        /\ sample.row.NP_TRMN_DTL_STTUS_VAL = "1" =>
              sample.row.CNCL_WTHD_DATE = None

C26_Witness ==
    /\ RowInserted
    /\ sample.generator = "_generate_azure_port_out_data"
    /\ sample.row.NP_TRMN_DTL_STTUS_VAL = "3"
    /\ sample.row.NP_TRMN_DATE = strftime(window_days)
    /\ sample.row.CNCL_WTHD_DATE = strftime(window_days + 15)

(***************************************************************************)
(* A further claim about the chat box, checked under SpecChat.             *)
(***************************************************************************)
\* display_chatbot has called db_manager.execute_query(sql_query)
ChatHandsSqlToExecuteQuery ==
    /\ gen.phase = "executing"
    /\ gen.entry = "display_chatbot"
    /\ exec.phase = "called"

\* C27: for every user input, the SQL string that the chat flow hands to
\* execute_query, whether it came from the AI path, a rule-based template
\* or the default fallback, is accepted by the safety validation of the
\* database layer.
C27_ChatSqlPassesSafetyValidation ==
    ChatHandsSqlToExecuteQuery => _validate_query_safety(exec.sql_query)

(***************************************************************************)
(* A further claim about the sample generator, checked under SpecSample.   *)
(***************************************************************************)
\* what the run compares: src/sample_data.py the sum of the three counts
\* with 50, src/project/sample_data.py each count with its minimum
FewerThanRequired(store) ==
    IF revision = "root"
    THEN store.rows[PORT_OUT] + store.rows[PORT_IN] + store.rows[DEPOSIT]
             < DATA_COUNT_MIN
    ELSE ~_is_sufficient_data(store.rows)

\* the server answered every statement of every run so far
EveryRunAnswered == sample.answered = sample.run

\* C29: when the cloud store already holds rows written by an earlier
\* generator run but fewer than required, a new run inserts only rows whose
\* primary keys differ from every existing key, so the run completes and
\* leaves each table at or above its threshold.
C29_TopUpRunCompletes ==
    ( /\ SampleDone
      /\ EveryRunAnswered
      /\ sample.before.generated_keys
      /\ FewerThanRequired(sample.before) )
        => /\ ~sample.raised
           /\ AboveThresholds(azure_store)
====
